---- MODULE Spec2Model ----
(***************************************************************************)
(* Model of the GoldenGate scan-orchestration pipeline:                    *)
(*   app/resume_manager.py  (scan lock, checkpoints, scan_with_resume)     *)
(*   app/dedupe.py, app/scanner.py (dedup index, FileScanner._scan_one)    *)
(*   app/large_file_scanner.py (UniversalLargeFileScanner.scan_file)       *)
(***************************************************************************)
EXTENDS Integers, Sequences, FiniteSets, TLC

\* ------------------------------------------------------------------------
\* Bounds of the model
\* ------------------------------------------------------------------------
NumProcs == 2

Procs == 1..NumProcs

\* ------------------------------------------------------------------------
\* State of the scan lock (ResumeManager.lock_file / lock_fd)
\* ------------------------------------------------------------------------
VARIABLES
    lock_file,      \* directory entry .resume/scan.lock: inode number or NoInode
    inodeContent,   \* inode -> content of the file (Empty or a lock_info record)
    flockHolder,    \* inode -> process whose open file holds LOCK_EX, or NoProc
    lock_fd,        \* process -> inode its self.lock_fd is open on, or NoInode
    pc,             \* process -> position inside acquire_lock / release_lock
    ret,            \* process -> return value of its last acquire_lock call
    racers,         \* processes that called acquire_lock since the lock was last free
    disturbed       \* TRUE once a release or a process exit ran since then

lockVars == <<lock_file, inodeContent, flockHolder, lock_fd, pc, ret, racers, disturbed>>

\* ------------------------------------------------------------------------
\* State of the checkpoint directory (ResumeManager.resume_dir), of the
\* scanned files and of the clock
\* ------------------------------------------------------------------------
VARIABLES
    resume_dir,     \* file name -> content of the file, or Absent
    files,          \* path -> [size, mtime] of the scanned file, or Gone
    now,            \* datetime.now(), in hours
    ck,             \* process -> locals of its save_checkpoint / load_checkpoint call
    edits,          \* number of times the scanned files were modified
    corruptSeen     \* TRUE once a reader's json.load met a partial checkpoint

ckptVars == <<resume_dir, files, now, ck, edits, corruptSeen>>

\* ------------------------------------------------------------------------
\* State of the output directory of FileScanner (dedup index files,
\* summary.csv) and of the FileScanner objects
\* ------------------------------------------------------------------------
VARIABLES
    summary_index_file, \* content of <out_dir>/.summary_index.json
    seen_file,          \* content of <out_dir>/.seen.json
    summary_csv,        \* data rows of <out_dir>/summary.csv
    fs,                 \* process -> its FileScanner (dedupe maps, _scan_one locals)
    completed           \* <<path, file state>> pairs whose _scan_one returned True

dedupeVars == <<summary_index_file, seen_file, summary_csv, fs, completed>>

\* ------------------------------------------------------------------------
\* State of the scan_with_resume calls and of the scans they run
\* ------------------------------------------------------------------------
VARIABLES
    swr,            \* process -> locals of its scan_with_resume call
    scan,           \* process -> locals of its scan_file call
    interruptedAt   \* path -> state of the file when a scan of it was interrupted

resumeVars == <<swr, scan, interruptedAt>>

\* ------------------------------------------------------------------------
\* State of the calls of the functions without side effects
\* ------------------------------------------------------------------------
VARIABLES
    det,            \* locals of the hits_from_text call
    file_info,      \* the file_info _analyze_file returned
    sd,             \* locals of the FileScanner.scan_directory call
    pg,             \* ParallelPIIScanner.scan_large_file: its ProgressTracker,
                    \* its ProgressMonitor and the locals of the scan
    mm,             \* the MemoryManager.get_optimal_chunk_size call
    lp,             \* the ResumeManager.list_pending_checkpoints call and the
                    \* resume directory it works on
    fo,             \* the EnhancedRobustRecognizer._filter_overlapping_results call
    pt,             \* a ProgressTracker shared by threads that call update and get_stats
    cl,             \* the classify_label call
    gs              \* the ResumeManager.get_scan_status call

pureVars == <<det, file_info, sd, pg, mm, lp, fo, pt, cl, gs>>

nonLockVars == <<ckptVars, dedupeVars, resumeVars, pureVars>>
nonCkptVars == <<lockVars, dedupeVars, resumeVars, pureVars>>
nonDedupeVars == <<lockVars, ckptVars, resumeVars, pureVars>>
nonDetectVars == <<lockVars, ckptVars, dedupeVars, resumeVars, file_info, sd, pg, mm, lp, fo, pt, cl, gs>>
nonStrategyVars == <<lockVars, ckptVars, dedupeVars, resumeVars, det, sd, pg, mm, lp, fo, pt, cl, gs>>
nonDirVars == <<lockVars, ckptVars, dedupeVars, resumeVars, det, file_info, pg, mm, lp, fo, pt, cl, gs>>
nonProgressVars == <<lockVars, ckptVars, dedupeVars, resumeVars, det, file_info, sd, mm, lp, fo, pt, cl, gs>>
nonMemoryVars == <<lockVars, ckptVars, dedupeVars, resumeVars, det, file_info, sd, pg, lp, fo, pt, cl, gs>>
nonFilterVars == <<lockVars, ckptVars, dedupeVars, resumeVars, det, file_info, sd, pg, mm, lp, pt, cl, gs>>
nonTrackerVars == <<lockVars, ckptVars, dedupeVars, resumeVars, det, file_info, sd, pg, mm, lp, fo, cl, gs>>
nonClassifyVars == <<lockVars, ckptVars, dedupeVars, resumeVars, det, file_info, sd, pg, mm, lp, fo, pt, gs>>
nonStatusVars == <<lockVars, dedupeVars, resumeVars, det, file_info, sd, pg, mm, lp, fo, pt, cl>>
nonPendingVars == <<lockVars, ckptVars, dedupeVars, resumeVars, det, file_info, sd, pg, mm, fo, pt, cl, gs>>

vars == <<lockVars, ckptVars, dedupeVars, resumeVars, pureVars>>

NoInode == 0
NoProc == 0
\* a file holds a sequence of JSON documents: none after truncation
Empty == <<>>

\* one inode per open file plus the one the directory entry names
Inodes == 1..(NumProcs + 1)

\* an inode that neither the directory nor any open file refers to
FreeInodes == {i \in Inodes : i # lock_file /\ \A p \in Procs : lock_fd[p] # i}

NewInode == CHOOSE i \in FreeInodes : \A j \in FreeInodes : i <= j

\* the file system drops an inode that no directory entry and no open file names
Reclaim(content, entry, fds) ==
    [i \in Inodes |-> IF i = entry \/ \E p \in Procs : fds[p] = i
                      THEN content[i] ELSE Empty]

\* lock_info = {"operation_id", "pid", "start_time", "hostname"}
LockInfo(p) ==
    <<[operation_id |-> p, pid |-> p, start_time |-> 0, hostname |-> "host"]>>

\* processes for which acquire_lock returned True and release_lock has not begun
Holders == {p \in Procs : pc[p] = "held"}

\* processes that are inside an acquire_lock call
InAcquire == {p \in Procs : pc[p] \in {"opened", "locked"}}

\* nobody holds the lock, is acquiring it or is releasing it
LockFree == \A p \in Procs : pc[p] = "idle"

LockInit ==
    /\ lock_file = NoInode
    /\ inodeContent = [i \in Inodes |-> Empty]
    /\ flockHolder = [i \in Inodes |-> NoProc]
    /\ lock_fd = [p \in Procs |-> NoInode]
    /\ pc = [p \in Procs |-> "idle"]
    /\ ret = [p \in Procs |-> "none"]
    /\ racers = {}
    /\ disturbed = FALSE

\* self.lock_fd = open(self.lock_file, "w"): O_CREAT | O_TRUNC
open_w(p) ==
    IF lock_file = NoInode
    THEN /\ lock_file' = NewInode
         /\ lock_fd' = [lock_fd EXCEPT ![p] = NewInode]
         /\ inodeContent' = [inodeContent EXCEPT ![NewInode] = Empty]
    ELSE /\ lock_file' = lock_file
         /\ lock_fd' = [lock_fd EXCEPT ![p] = lock_file]
         /\ inodeContent' = [inodeContent EXCEPT ![lock_file] = Empty]

acquire_lock_open(p) ==
    /\ pc[p] = "idle"
    /\ open_w(p)
    /\ pc' = [pc EXCEPT ![p] = "opened"]
    /\ ret' = [ret EXCEPT ![p] = "none"]
    /\ IF LockFree
       THEN racers' = {p} /\ disturbed' = FALSE
       ELSE racers' = racers \cup {p} /\ UNCHANGED disturbed
    /\ UNCHANGED flockHolder

\* a shared lock (LOCK_SH) in place of LOCK_EX never conflicts
flock_sh_nb(p) == TRUE

\* fcntl.flock(fd, LOCK_EX | LOCK_NB): succeeds iff no other open file holds it
flock_ex_nb(p) == flockHolder[lock_fd[p]] = NoProc

acquire_lock_flock(p) ==
    /\ pc[p] = "opened"
    /\ IF flock_ex_nb(p)
       THEN /\ flockHolder' = [flockHolder EXCEPT ![lock_fd[p]] = p]
            /\ pc' = [pc EXCEPT ![p] = "locked"]
            /\ UNCHANGED <<lock_fd, ret, inodeContent>>
       ELSE \* except OSError: close, lock_fd = None, return False
            /\ lock_fd' = [lock_fd EXCEPT ![p] = NoInode]
            /\ inodeContent' = Reclaim(inodeContent, lock_file, lock_fd')
            /\ pc' = [pc EXCEPT ![p] = "idle"]
            /\ ret' = [ret EXCEPT ![p] = "false"]
            /\ UNCHANGED flockHolder
    /\ UNCHANGED <<lock_file, racers, disturbed>>

\* json.dump(lock_info, self.lock_fd); flush(); return True
acquire_lock_write(p) ==
    /\ pc[p] = "locked"
    /\ inodeContent' = [inodeContent EXCEPT ![lock_fd[p]] = LockInfo(p)]
    /\ pc' = [pc EXCEPT ![p] = "held"]
    /\ ret' = [ret EXCEPT ![p] = "true"]
    /\ UNCHANGED <<lock_file, flockHolder, lock_fd, racers, disturbed>>

\* release_lock: fcntl.flock(fd, LOCK_UN)
release_lock_unlock(p) ==
    /\ pc[p] = "held"
    /\ flockHolder' = [flockHolder EXCEPT ![lock_fd[p]] = NoProc]
    /\ pc' = [pc EXCEPT ![p] = "unlocked"]
    /\ disturbed' = TRUE
    /\ UNCHANGED <<lock_file, inodeContent, lock_fd, ret, racers>>

\* release_lock: self.lock_fd.close()
release_lock_close(p) ==
    /\ pc[p] = "unlocked"
    /\ lock_fd' = [lock_fd EXCEPT ![p] = NoInode]
    /\ inodeContent' = Reclaim(inodeContent, lock_file, lock_fd')
    /\ pc' = [pc EXCEPT ![p] = "closed"]
    /\ UNCHANGED <<lock_file, flockHolder, ret, racers, disturbed>>

\* release_lock: self.lock_file.unlink(missing_ok=True); finally lock_fd = None
release_lock_unlink(p) ==
    /\ pc[p] = "closed"
    /\ lock_file' = NoInode
    /\ inodeContent' = Reclaim(inodeContent, NoInode, lock_fd)
    /\ pc' = [pc EXCEPT ![p] = "idle"]
    /\ UNCHANGED <<flockHolder, lock_fd, ret, racers, disturbed>>

\* ------------------------------------------------------------------------
\* Checkpoints (ResumeManager.save_checkpoint / load_checkpoint / ...)
\* ------------------------------------------------------------------------
MaxTicks == 2
MaxEdits == 1

\* the files offered to the scanner
Paths == {1}
Gone == <<>>
\* <<st_size, st_mtime>>: a file, and the file after it was rewritten; the
\* size is counted in chunks of extracted text
FileStates == {<<2, 1>>, <<4, 2>>}

\* "Consider checkpoint stale after 24 hours"
StaleHours == 24

\* progress_data: the payload a caller passes to save_checkpoint; it is stored
\* and handed back, never interpreted
Progress == {"progress_data"}

\* hashlib.md5(f"{file_path}:{st_size}:{st_mtime}").hexdigest()[:16], or of
\* the path alone when stat fails; the digest is modelled as the tuple of the
\* hashed fields (distinct inputs give distinct digests)
md5_16(fields) == fields

get_file_fingerprint(f) ==
    IF files[f] = Gone THEN md5_16(<<f>>)
    ELSE md5_16(<<f, files[f][1], files[f][2]>>)

Fingerprints ==
    {md5_16(<<f>>) : f \in Paths} \cup
    {md5_16(<<f, st[1], st[2]>>) : f \in Paths, st \in FileStates}

\* resume_dir / f"checkpoint_{fingerprint}.json"
checkpoint_file(fp) == <<fp, "json">>

\* a writer that opens the checkpoint file itself instead of a temporary file
with_suffix_json(cf) == cf

\* checkpoint_file.with_suffix(".tmp")
with_suffix_tmp(cf) == <<cf[1], "tmp">>

FileNames == {<<fp, sfx>> : fp \in Fingerprints, sfx \in {"json", "tmp"}}

\* checkpoint_data of save_checkpoint
CheckpointData(f, fp, t, prog) ==
    [file_path |-> f, fingerprint |-> fp, save_time |-> t,
     progress |-> prog, version |-> "1.0"]

NoDoc == CheckpointData(0, <<>>, 0, "")

\* json.dump reaches the file in DocParts writes; a file that holds fewer
\* parts of a document does not parse, whatever the document
DocParts == 2
Absent == <<>>
Truncated == <<NoDoc, 0>>
Content(doc, k) == IF k = DocParts THEN <<doc, k>> ELSE <<NoDoc, k>>
Parses(c) == c # Absent /\ c[2] = DocParts

NoCheckpoint == <<>>

IdleCall == [pc |-> "idle", path |-> 0, fp |-> <<>>, doc |-> NoDoc,
             result |-> NoCheckpoint]

CkptInit ==
    /\ resume_dir = [n \in FileNames |-> Absent]
    /\ files = [f \in Paths |-> <<2, 1>>]
    /\ now = 0
    /\ edits = 0
    /\ ck = [p \in Procs |-> IdleCall]
    /\ corruptSeen = FALSE

\* save_checkpoint calls for one file are serialized by their caller
SavingTo(tmp) ==
    {q \in Procs : ck[q].pc \in {"save_opened", "save_written"}
                   /\ with_suffix_tmp(checkpoint_file(ck[q].fp)) = tmp}

\* save_checkpoint: fingerprint, checkpoint_data, open(temp_file, "w")
save_checkpoint_open(p, f, prog) ==
    LET fp == get_file_fingerprint(f)
        tmp == with_suffix_tmp(checkpoint_file(fp))
    IN /\ ck[p].pc = "idle"
       /\ SavingTo(with_suffix_tmp(checkpoint_file(fp))) = {}
       /\ resume_dir' = [resume_dir EXCEPT ![tmp] = Truncated]
       /\ ck' = [ck EXCEPT ![p] = [pc |-> "save_opened", path |-> f, fp |-> fp,
                                   doc |-> CheckpointData(f, fp, now, prog),
                                   result |-> NoCheckpoint]]
       /\ UNCHANGED <<files, now, edits, corruptSeen>>

\* save_checkpoint: json.dump(checkpoint_data, f), one write at a time; the
\* with block closes the file after the last one
save_checkpoint_write(p) ==
    LET tmp == with_suffix_tmp(checkpoint_file(ck[p].fp))
        k == resume_dir[tmp][2]
    IN /\ ck[p].pc = "save_opened"
       /\ resume_dir' = [resume_dir EXCEPT ![tmp] = Content(ck[p].doc, k + 1)]
       /\ ck' = [ck EXCEPT ![p].pc = IF k + 1 = DocParts THEN "save_written"
                                     ELSE "save_opened"]
       /\ UNCHANGED <<files, now, edits, corruptSeen>>

\* Path.replace: rename(2); renaming a file onto itself changes nothing
replace(dir, src, dst) ==
    IF src = dst THEN dir
    ELSE [dir EXCEPT ![dst] = dir[src], ![src] = Absent]

\* save_checkpoint: temp_file.replace(checkpoint_file); return checkpoint_file
save_checkpoint_replace(p) ==
    LET cf == checkpoint_file(ck[p].fp)
    IN /\ ck[p].pc = "save_written"
       /\ resume_dir' = replace(resume_dir, with_suffix_tmp(cf), cf)
       /\ ck' = [ck EXCEPT ![p] = IdleCall]
       /\ UNCHANGED <<files, now, edits, corruptSeen>>

\* checkpoint_file.unlink(missing_ok=True)
unlink(dir, name) == [dir EXCEPT ![name] = Absent]

\* age check that never rejects a checkpoint
age_ok_never_stale(doc) == TRUE

\* _is_checkpoint_valid: age_hours > 24 makes the checkpoint stale
age_ok(doc) == ~(now - doc.save_time > StaleHours)

\* _is_checkpoint_valid(checkpoint_data, file_path)
_is_checkpoint_valid(doc, f) ==
    /\ doc.file_path = f
    /\ doc.fingerprint = get_file_fingerprint(f)
    /\ age_ok(doc)

\* load_checkpoint: fingerprint, exists(), open and json.load
load_checkpoint_read(p, f) ==
    LET fp == get_file_fingerprint(f)
        cf == checkpoint_file(fp)
    IN /\ ck[p].pc = "idle"
       /\ IF resume_dir[cf] = Absent
          THEN \* return None
               /\ ck' = [ck EXCEPT ![p] = [IdleCall EXCEPT !.path = f]]
               /\ UNCHANGED <<resume_dir, corruptSeen>>
          ELSE IF ~Parses(resume_dir[cf])
          THEN \* except Exception: remove corrupted checkpoint, return None
               /\ resume_dir' = unlink(resume_dir, cf)
               /\ corruptSeen' = TRUE
               /\ ck' = [ck EXCEPT ![p] = [IdleCall EXCEPT !.path = f]]
          ELSE /\ ck' = [ck EXCEPT ![p] = [pc |-> "load_read", path |-> f,
                                           fp |-> fp, doc |-> resume_dir[cf][1],
                                           result |-> NoCheckpoint]]
               /\ UNCHANGED <<resume_dir, corruptSeen>>
       /\ UNCHANGED <<files, now, edits>>

\* load_checkpoint: validate; return the checkpoint or unlink it and return None
load_checkpoint_validate(p) ==
    /\ ck[p].pc = "load_read"
    /\ IF _is_checkpoint_valid(ck[p].doc, ck[p].path)
       THEN /\ ck' = [ck EXCEPT ![p] = [IdleCall EXCEPT !.path = ck[p].path,
                                                        !.result = <<ck[p].doc>>]]
            /\ UNCHANGED resume_dir
       ELSE /\ resume_dir' = unlink(resume_dir, checkpoint_file(ck[p].fp))
            /\ ck' = [ck EXCEPT ![p] = [IdleCall EXCEPT !.path = ck[p].path]]
    /\ UNCHANGED <<files, now, edits, corruptSeen>>

\* clear_checkpoint(file_path)
clear_checkpoint(p, f) ==
    /\ ck[p].pc = "idle"
    /\ resume_dir' = unlink(resume_dir, checkpoint_file(get_file_fingerprint(f)))
    /\ ck' = [ck EXCEPT ![p] = IdleCall]
    /\ UNCHANGED <<files, now, edits, corruptSeen>>

\* list_pending_checkpoints, one file of glob("checkpoint_*.json"): read it;
\* keep it if its target exists and it is valid, unlink it otherwise
list_pending_visit(p, fp) ==
    LET cf == checkpoint_file(fp)
        c == resume_dir[cf]
    IN /\ ck[p].pc = "idle"
       /\ c # Absent
       /\ IF ~Parses(c)
          THEN /\ resume_dir' = unlink(resume_dir, cf)
               /\ corruptSeen' = TRUE
          ELSE IF c[1].file_path \in Paths /\ files[c[1].file_path] # Gone
                  /\ _is_checkpoint_valid(c[1], c[1].file_path)
          THEN UNCHANGED <<resume_dir, corruptSeen>>
          ELSE /\ resume_dir' = unlink(resume_dir, cf)
               /\ UNCHANGED corruptSeen
       /\ ck' = [ck EXCEPT ![p] = IdleCall]
       /\ UNCHANGED <<files, now, edits>>

\* the scanned file is rewritten, touched or removed by its owner
modify_file(f) ==
    /\ edits < MaxEdits
    /\ edits' = edits + 1
    /\ \E st \in FileStates \cup {Gone} : st # files[f] /\ files' = [files EXCEPT ![f] = st]
    /\ UNCHANGED <<resume_dir, now, ck, corruptSeen>>

\* the scanned file is removed by its owner
remove_file(f) ==
    /\ edits < MaxEdits
    /\ files[f] # Gone
    /\ edits' = edits + 1
    /\ files' = [files EXCEPT ![f] = Gone]
    /\ UNCHANGED <<resume_dir, now, ck, corruptSeen>>

\* time passes, one staleness period at a time
Tick ==
    /\ now < MaxTicks * StaleHours
    /\ now' = now + StaleHours
    /\ UNCHANGED <<resume_dir, files, ck, edits, corruptSeen>>

\* ------------------------------------------------------------------------
\* Dedup index (DedupeManager) and FileScanner._scan_one
\* ------------------------------------------------------------------------
MaxRows == 2

\* two command-line scanners (scan / watch) working on one output directory
Scanners == {1, 2}

EmptyKey == <<>>
NoSig == <<>>
ZeroHash == <<0>>

\* realpath|size|mtime_ns, or "" when the file cannot be stat'ed
_get_canonical_key(f) ==
    IF files[f] = Gone THEN EmptyKey ELSE <<f, files[f][1], files[f][2]>>

\* size:mtime, or "" when the file cannot be stat'ed
_get_file_signature(f) ==
    IF files[f] = Gone THEN NoSig ELSE <<files[f][1], files[f][2]>>

get_hash16(f) ==
    IF _get_canonical_key(f) = EmptyKey THEN ZeroHash
    ELSE md5_16(_get_canonical_key(f))

\* a JSON file of the output directory: missing, opened for writing and not
\* yet written (open(path, 'w') truncates), or holding a dumped map
AbsentFile(default) == [state |-> "absent", data |-> default]
BlankFile(default) == [state |-> "empty", data |-> default]
JsonFile(d) == [state |-> "json", data |-> d]

EmptyIndex == {}
EmptySeen == [f \in Paths |-> NoSig]

_load_json(file, default) == IF file.state = "json" THEN file.data ELSE default

\* what scan_file_once counts in the file as it is now
FileSummary(f) == [total |-> files[f][1]]
NoSummary == [total |-> 0]

NoScanner == [pc |-> "none", summary_index |-> EmptyIndex, seen |-> EmptySeen,
              file_path |-> 0, info |-> <<>>, summary |-> NoSummary,
              canonical_key |-> EmptyKey, ret |-> "none"]

DedupeInit ==
    /\ summary_index_file = AbsentFile(EmptyIndex)
    /\ seen_file = AbsentFile(EmptySeen)
    /\ summary_csv = <<>>
    /\ fs = [p \in Procs |-> NoScanner]
    /\ completed = {}

\* FileScanner.__init__: DedupeManager.__init__ loads both maps into memory
FileScanner_init(p) ==
    /\ fs[p].pc = "none"
    /\ fs' = [fs EXCEPT ![p] =
                [NoScanner EXCEPT !.pc = "ready",
                                  !.summary_index = _load_json(summary_index_file, EmptyIndex),
                                  !.seen = _load_json(seen_file, EmptySeen)]]
    /\ UNCHANGED <<summary_index_file, seen_file, summary_csv, completed>>

\* a variant: only the signature recorded for the path is compared
is_duplicate_signature_only(d, f) ==
    LET file_signature == _get_file_signature(f)
    IN  file_signature # NoSig /\ d.seen[f] = file_signature

is_duplicate(d, f) ==
    LET canonical_key == _get_canonical_key(f)
        file_signature == _get_file_signature(f)
    IN  IF canonical_key = EmptyKey THEN FALSE
        ELSE IF canonical_key \in d.summary_index THEN TRUE
        ELSE IF file_signature = NoSig THEN FALSE
        ELSE d.seen[f] = file_signature

\* leave _scan_one with the given return value
Return(d, r) ==
    [NoScanner EXCEPT !.pc = "ready", !.summary_index = d.summary_index,
                      !.seen = d.seen, !.ret = r]

\* _scan_one up to the call of scan_file_once: the dedup check, the stat
\* of the file and its hash
_scan_one_is_duplicate(p, f) ==
    /\ fs[p].pc = "ready"
    /\ IF is_duplicate(fs[p], f)
          THEN fs' = [fs EXCEPT ![p] = Return(fs[p], "false")]
       ELSE IF files[f] = Gone
          THEN fs' = [fs EXCEPT ![p] = Return(fs[p], "false")]
       ELSE fs' = [fs EXCEPT ![p] =
                     [fs[p] EXCEPT !.pc = "scanning", !.file_path = f, !.ret = "none",
                                   !.info = <<f, get_hash16(f), files[f][1], files[f][2]>>]]
    /\ UNCHANGED <<summary_index_file, seen_file, summary_csv, completed>>

\* scan_file_once reads the file; a file that is gone raises and _scan_one
\* returns False from its except clause
_scan_one_scan(p) ==
    /\ fs[p].pc = "scanning"
    /\ IF files[fs[p].file_path] = Gone
          THEN fs' = [fs EXCEPT ![p] = Return(fs[p], "false")]
          ELSE fs' = [fs EXCEPT ![p] =
                        [fs[p] EXCEPT !.pc = "scanned",
                                      !.summary = FileSummary(fs[p].file_path)]]
    /\ UNCHANGED <<summary_index_file, seen_file, summary_csv, completed>>

\* the row of the file is appended to summary.csv
_scan_one_write_row(p) ==
    /\ fs[p].pc = "scanned"
    /\ Len(summary_csv) < MaxRows
    /\ summary_csv' = Append(summary_csv, fs[p].info \o <<fs[p].summary.total>>)
    /\ fs' = [fs EXCEPT ![p].pc = "row_written"]
    /\ UNCHANGED <<summary_index_file, seen_file, completed>>

\* add_processed up to the open of .summary_index.json: the key is taken
\* from a new stat of the file, the maps in memory are updated
add_processed_open_index(p) ==
    /\ fs[p].pc = "row_written"
    /\ LET f == fs[p].file_path
           canonical_key == _get_canonical_key(f)
           file_signature == _get_file_signature(f)
       IN  IF canonical_key = EmptyKey
              THEN /\ fs' = [fs EXCEPT ![p] = Return(fs[p], "true")]
                   /\ UNCHANGED summary_index_file
              ELSE /\ fs' = [fs EXCEPT ![p] =
                               [fs[p] EXCEPT
                                  !.pc = "index_open",
                                  !.canonical_key = canonical_key,
                                  !.summary_index = fs[p].summary_index \cup {canonical_key},
                                  !.seen = IF file_signature = NoSig THEN fs[p].seen
                                           ELSE [fs[p].seen EXCEPT ![f] = file_signature]]]
                   /\ summary_index_file' = BlankFile(EmptyIndex)
    /\ UNCHANGED <<seen_file, summary_csv, completed>>

\* json.dump of the whole summary_index of this object
add_processed_dump_index(p) ==
    /\ fs[p].pc = "index_open"
    /\ summary_index_file' = JsonFile(fs[p].summary_index)
    /\ fs' = [fs EXCEPT ![p].pc = "index_saved"]
    /\ UNCHANGED <<seen_file, summary_csv, completed>>

add_processed_open_seen(p) ==
    /\ fs[p].pc = "index_saved"
    /\ seen_file' = BlankFile(EmptySeen)
    /\ fs' = [fs EXCEPT ![p].pc = "seen_open"]
    /\ UNCHANGED <<summary_index_file, summary_csv, completed>>

\* json.dump of the whole seen map; _scan_one returns True
add_processed_dump_seen(p) ==
    /\ fs[p].pc = "seen_open"
    /\ seen_file' = JsonFile(fs[p].seen)
    /\ completed' = completed \cup {<<fs[p].file_path, <<fs[p].canonical_key[2], fs[p].canonical_key[3]>> >>}
    /\ fs' = [fs EXCEPT ![p] = Return(fs[p], "true")]
    /\ UNCHANGED <<summary_index_file, summary_csv>>

\* ------------------------------------------------------------------------
\* SmartResumeScanner.scan_with_resume around
\* UniversalLargeFileScanner.scan_file
\* ------------------------------------------------------------------------
\* the process that calls scan_with_resume on the output directory, and
\* another holder of the scan lock of that directory
Resumers == {1}
Lockers == {2}

\* the worker processes of the pool
max_workers == 1

\* file_info["optimal_chunk_size"]: the characters of one chunk of text
optimal_chunk_size == 4

\* the strategies of scan_file that dispatch chunks to the worker pool
Strategies == {"csv_streaming", "memory_mapped", "parallel_chunks"}

\* a variant: every strategy collects at the threshold of the parallel one
InFlightCap_always_3(strategy) == max_workers * 3

\* "Collect results periodically": the number of futures that triggers it
InFlightCap(strategy) ==
    IF strategy = "parallel_chunks" THEN max_workers * 3 ELSE max_workers * 2

\* the chunks extract_text_stream yields for the file, in order
extract_text_stream(f) == 1..files[f][1]

\* the chunks of one scan whose detection may fail
MaxFailed == 1

\* hits_from_text(text_chunk, 4000, 200) for the text of chunk c, which holds
\* c entities of one character: EntityHit(value, start, end) with the
\* positions of the entity in the text it was given
hits_from_text(c) ==
    [k \in 1..c |-> [value |-> <<c, k>>, start |-> k - 1, end |-> k]]

\* the entities _process_text_chunk returns for chunk c
_process_text_chunk(c) == hits_from_text(c)

RECURSIVE SumHits(_)
SumHits(S) ==
    IF S = {} THEN 0
    ELSE LET c == CHOOSE x \in S : TRUE
         IN  Len(_process_text_chunk(c)) + SumHits(S \ {c})

Min(S) == CHOOSE x \in S : \A y \in S : x <= y

\* the orders in which as_completed can yield the futures of S: the ones
\* already finished come out of a set, the others as they finish
Orders(S) ==
    {o \in [1..Cardinality(S) -> S] : \A c \in S : \E i \in DOMAIN o : o[i] = c}

\* the chunks of S as the file yields them
InFileOrder(S) ==
    CHOOSE o \in Orders(S) : \A i, j \in DOMAIN o : i < j => o[i] < o[j]

\* all_entities.extend(entities) for each future of order in turn; a chunk
\* whose detection raised gave the empty list
RECURSIVE Extend(_, _)
Extend(order, failed) ==
    IF Len(order) = 0 THEN <<>>
    ELSE (IF order[1] \in failed THEN <<>> ELSE _process_text_chunk(order[1]))
            \o Extend([i \in 1..(Len(order) - 1) |-> order[i + 1]], failed)

\* ProgressTracker(operation_id) of scan_file: the counters at 0
NewStats == [processed_items |-> 0, entities_found |-> 0]

\* tracker.update(processed=..., entities=...) of the scan: processed is 1
\* and entities is 0 when the call does not pass it
ProgressTracker_update(tracker, processed, entities) ==
    [processed_items |-> tracker.processed_items + processed,
     entities_found |-> tracker.entities_found + entities]

IdleScan == [pc |-> "idle", strategy |-> "", chunks |-> {}, next |-> 0,
             futures |-> {}, done |-> {}, failed |-> {}, all_entities |-> <<>>,
             tracker |-> NewStats]

\* what scan_with_resume hands back
NoResult == [kind |-> "none", total |-> 0]
\* _build_result(all_entities, ...): summary.total_entities
BuildResult(n) == [kind |-> "summary", total |-> n]
\* {"error": str(e), ...}
ErrorResult == [kind |-> "error", total |-> 0]
\* the KeyboardInterrupt that scan_with_resume raises again
Interrupted == [kind |-> "KeyboardInterrupt", total |-> 0]

IdleResume == [pc |-> "none", file_path |-> 0, progress_data |-> "",
               result |-> NoResult, entities |-> <<>>, resumes |-> Gone,
               counters |-> 0, computed |-> 0, chunks |-> {}, failed |-> {},
               stats |-> NewStats, submitted |-> 0]

ResumeInit ==
    /\ swr = [p \in Procs |-> IdleResume]
    /\ scan = [p \in Procs |-> IdleScan]
    /\ interruptedAt = [f \in Paths |-> Gone]

\* checkpoint writes are serialized with the scans of the output directory:
\* save_checkpoint is called (by a tool of the resume API) between scans,
\* while nobody holds or takes the scan lock
NoScanRuns == LockFree /\ \A q \in Procs : swr[q].pc = "none"
NoSaveRuns == \A q \in Procs : ck[q].pc \notin {"save_opened", "save_written"}

\* scan_with_resume: acquire_lock, open of the sentinel
scan_with_resume_open(p, f) ==
    /\ swr[p].pc = "none"
    /\ NoSaveRuns
    /\ acquire_lock_open(p)
    /\ swr' = [swr EXCEPT ![p] = [IdleResume EXCEPT !.pc = "acquire", !.file_path = f]]
    /\ UNCHANGED <<ckptVars, dedupeVars, scan, interruptedAt>>

\* scan_with_resume: acquire_lock, flock; "if not acquire_lock"
scan_with_resume_flock(p) ==
    /\ swr[p].pc = "acquire"
    /\ acquire_lock_flock(p)
    /\ swr' = [swr EXCEPT ![p].pc = IF ret'[p] = "false" THEN "refused" ELSE "acquire"]
    /\ UNCHANGED <<ckptVars, dedupeVars, scan, interruptedAt>>

\* scan_with_resume: acquire_lock writes lock_info and returns True
scan_with_resume_write(p) ==
    /\ swr[p].pc = "acquire"
    /\ acquire_lock_write(p)
    /\ swr' = [swr EXCEPT ![p].pc = "load"]
    /\ UNCHANGED <<ckptVars, dedupeVars, scan, interruptedAt>>

\* list_pending_checkpoints keeps a checkpoint file that parses, whose
\* target exists and which is valid
list_pending_keeps(c) ==
    /\ Parses(c)
    /\ c[1].file_path \in Paths
    /\ files[c[1].file_path] # Gone
    /\ _is_checkpoint_valid(c[1], c[1].file_path)

\* scan_with_resume refused: the error result with get_scan_status(), whose
\* list_pending_checkpoints unlinks the checkpoints it does not keep
scan_with_resume_refused(p) ==
    /\ swr[p].pc = "refused"
    /\ resume_dir' = [n \in FileNames |->
                        IF n[2] = "json" /\ resume_dir[n] # Absent
                           /\ ~list_pending_keeps(resume_dir[n])
                        THEN Absent ELSE resume_dir[n]]
    /\ corruptSeen' = (corruptSeen \/ \E n \in FileNames :
                          n[2] = "json" /\ resume_dir[n] # Absent /\ ~Parses(resume_dir[n]))
    /\ swr' = [swr EXCEPT ![p] = IdleResume]
    /\ UNCHANGED <<files, now, ck, edits>>
    /\ UNCHANGED <<lockVars, dedupeVars, scan, interruptedAt>>

\* scan_with_resume: load_checkpoint(file_path), the read
scan_with_resume_load_read(p) ==
    /\ swr[p].pc = "load"
    /\ load_checkpoint_read(p, swr[p].file_path)
    /\ swr' = [swr EXCEPT ![p].pc = IF ck'[p].pc = "idle" THEN "scan" ELSE "load"]
    /\ UNCHANGED <<lockVars, dedupeVars, scan, interruptedAt>>

\* scan_with_resume: load_checkpoint(file_path), the validation;
\* progress_data = checkpoint.get("progress", {}) or {}
scan_with_resume_load_validate(p) ==
    /\ swr[p].pc = "load"
    /\ load_checkpoint_validate(p)
    /\ swr' = [swr EXCEPT ![p].pc = "scan",
                          ![p].progress_data =
                              IF ck'[p].result = NoCheckpoint THEN ""
                              ELSE ck'[p].result[1].progress]
    /\ UNCHANGED <<lockVars, dedupeVars, scan, interruptedAt>>

\* scanner_func(file_path, output_dir, progress_data) is scan_file(file_path,
\* output_dir), which has no parameter for progress_data.  _analyze_file
\* picks the strategy from the extension, the size in MB and the free
\* memory; for a file that is gone it returns no size and scan_file raises
\* before its try block, which scan_with_resume turns into {"error": ...}
scan_file_analyze(p) ==
    LET f == swr[p].file_path
    IN /\ swr[p].pc = "scan"
       /\ scan[p].pc = "idle"
       /\ IF files[f] = Gone
          THEN /\ swr' = [swr EXCEPT ![p].pc = "release", ![p].result = ErrorResult]
               /\ UNCHANGED scan
          ELSE /\ \E s \in Strategies :
                    scan' = [scan EXCEPT ![p] =
                               [IdleScan EXCEPT !.pc = "submit", !.strategy = s,
                                                !.chunks = extract_text_stream(f),
                                                !.next = 1]]
               /\ swr' = [swr EXCEPT ![p].resumes =
                             IF interruptedAt[f] = files[f] THEN files[f] ELSE Gone]
       /\ UNCHANGED <<lockVars, ckptVars, dedupeVars, interruptedAt>>

\* the loop over the chunks: executor.submit(_process_text_chunk, ...),
\* tracker.update(processed=1, bytes_count=...), then "if len(futures) >=
\* cap" the periodic collection; after the last chunk the collection of the
\* remaining results
scan_file_submit(p) ==
    LET s == scan[p]
        futures == s.futures \cup {s.next}
    IN /\ s.pc = "submit"
       /\ scan' = [scan EXCEPT ![p].futures = futures,
                               ![p].next = s.next + 1,
                               ![p].tracker = ProgressTracker_update(@, 1, 0),
                               ![p].pc = IF Cardinality(futures) >= InFlightCap(s.strategy)
                                            \/ s.next + 1 \notin s.chunks
                                         THEN "collect" ELSE "submit"]
       /\ UNCHANGED <<lockVars, ckptVars, dedupeVars, swr, interruptedAt>>

\* a worker process finishes one of the chunks in flight, in any order;
\* when hits_from_text raises, _process_text_chunk prints the error and
\* returns []
worker_done(p) ==
    /\ scan[p].pc \in {"submit", "collect"}
    /\ \E c \in scan[p].futures \ scan[p].done, ok \in BOOLEAN :
          /\ ok \/ Cardinality(scan[p].failed) < MaxFailed
          /\ scan' = [scan EXCEPT ![p].done = @ \cup {c},
                                  ![p].failed = IF ok THEN @ ELSE @ \cup {c}]
    /\ UNCHANGED <<lockVars, ckptVars, dedupeVars, swr, interruptedAt>>

\* _scan_chunked_streaming: hits_from_text on each chunk in turn, in this
\* process; an exception of a chunk ends the loop and the result is built
\* from the chunks before it
_scan_chunked_streaming(s) ==
    Extend(InFileOrder({c \in s.chunks : \A b \in s.failed : c < b}), {})

\* the tracker after _scan_chunked_streaming: tracker.update(processed=1,
\* entities=len(entities), ...) for each chunk it scanned
_scan_chunked_streaming_tracker(s, tracker) ==
    ProgressTracker_update(
        tracker,
        Cardinality({c \in s.chunks : \A b \in s.failed : c < b}),
        Len(_scan_chunked_streaming(s)))

\* the tracker whose get_stats() goes into the result when a collection
\* raised TimeoutError: _scan_memory_mapped hands the tracker it has used to
\* _scan_chunked_streaming
StatsAfterTimeout(s, tracker) ==
    IF s.strategy = "memory_mapped"
    THEN _scan_chunked_streaming_tracker(s, tracker)
    ELSE tracker

\* what a strategy returns when a collection raised TimeoutError:
\* _scan_parallel_chunks swallows the exception and builds a result from
\* what was folded; _scan_memory_mapped falls back to
\* _scan_chunked_streaming, which scans every chunk in this process; in
\* _scan_csv_streaming it reaches scan_file, which returns {"error": ...}
AfterTimeout(s, folded) ==
    CASE s.strategy = "parallel_chunks" ->
            [result |-> BuildResult(Len(folded)), entities |-> folded]
      [] s.strategy = "memory_mapped" ->
            [result |-> BuildResult(Len(_scan_chunked_streaming(s))),
             entities |-> _scan_chunked_streaming(s)]
      [] OTHER -> [result |-> ErrorResult, entities |-> <<>>]

\* _collect_futures: as_completed(futures, timeout=0.1) yields the futures
\* that are done and raises TimeoutError when the others are not done in
\* time; for each future it yields, all_entities.extend(entities) and
\* tracker.update(entities=len(entities), ...)
_collect_futures(p) ==
    \E order \in Orders(scan[p].done) :
    LET s == scan[p]
        folded == s.all_entities \o Extend(order, s.failed)
        tracker == ProgressTracker_update(s.tracker, Len(order),
                                          Len(Extend(order, s.failed)))
        returned == IF s.done = s.futures
                    THEN [result |-> BuildResult(Len(folded)), entities |-> folded]
                    ELSE AfterTimeout(s, folded)
    IN /\ s.pc = "collect"
       /\ swr[p].pc = "scan"
       /\ IF s.done = s.futures /\ s.next \in s.chunks
          THEN /\ scan' = [scan EXCEPT ![p].futures = {}, ![p].done = {},
                                       ![p].all_entities = folded,
                                       ![p].tracker = tracker,
                                       ![p].pc = "submit"]
               /\ UNCHANGED swr
          ELSE /\ scan' = [scan EXCEPT ![p] = IdleScan]
               /\ swr' = [swr EXCEPT ![p].pc = "clear",
                                     ![p].result = returned.result,
                                     ![p].entities = returned.entities,
                                     ![p].chunks = s.chunks,
                                     ![p].failed = s.failed,
                                     ![p].stats =
                                        IF s.done = s.futures THEN tracker
                                        ELSE StatsAfterTimeout(s, tracker),
                                     ![p].submitted = s.next - 1]
       /\ UNCHANGED <<lockVars, ckptVars, dedupeVars, interruptedAt>>

\* the termination signal inside the try block of scan_with_resume (in
\* load_checkpoint, in the scan, in clear_checkpoint): KeyboardInterrupt
\* leaves the chunk loop and scan_file (neither catches it);
\* scan_with_resume prints and raises it again after its finally clause
KeyboardInterrupt(p) ==
    LET s == scan[p]
        f == swr[p].file_path
    IN /\ swr[p].pc \in {"load", "scan", "clear"}
       /\ scan' = [scan EXCEPT ![p] = IdleScan]
       /\ ck' = [ck EXCEPT ![p] = IdleCall]
       /\ swr' = [swr EXCEPT ![p].pc = "release", ![p].result = Interrupted,
                             ![p].counters = Len(s.all_entities),
                             ![p].computed = SumHits(s.done \ s.failed)]
       /\ interruptedAt' = IF s.next > 1 /\ s.next \in s.chunks
                           THEN [interruptedAt EXCEPT ![f] = files[f]]
                           ELSE interruptedAt
       /\ UNCHANGED <<resume_dir, files, now, edits, corruptSeen>>
       /\ UNCHANGED <<lockVars, dedupeVars>>

\* scan_with_resume: scanner_func returned; clear_checkpoint(file_path)
scan_with_resume_clear(p) ==
    /\ swr[p].pc = "clear"
    /\ clear_checkpoint(p, swr[p].file_path)
    /\ swr' = [swr EXCEPT ![p].pc = "release"]
    /\ UNCHANGED <<lockVars, dedupeVars, scan, interruptedAt>>

\* scan_with_resume: finally release_lock(), the unlock
scan_with_resume_unlock(p) ==
    /\ swr[p].pc = "release"
    /\ release_lock_unlock(p)
    /\ UNCHANGED <<ckptVars, dedupeVars, swr, scan, interruptedAt>>

scan_with_resume_close(p) ==
    /\ swr[p].pc = "release"
    /\ release_lock_close(p)
    /\ UNCHANGED <<ckptVars, dedupeVars, swr, scan, interruptedAt>>

\* scan_with_resume: release_lock unlinks the sentinel; the call returns
\* its result or raises
scan_with_resume_unlink(p) ==
    /\ swr[p].pc = "release"
    /\ release_lock_unlink(p)
    /\ swr' = [swr EXCEPT ![p] = IdleResume]
    /\ UNCHANGED <<ckptVars, dedupeVars, scan, interruptedAt>>

\* a variant operating system: the locks of a dead process stay
drop_flocks_never(p) == flockHolder

\* the operating system closes the open files of a process that ends, which
\* drops the flock of each
drop_flocks(p) ==
    [i \in Inodes |-> IF flockHolder[i] = p THEN NoProc ELSE flockHolder[i]]

\* the process ends without unwinding (kill, power loss): the operating
\* system closes its open files, which drops its flock; the sentinel file,
\* the checkpoint files and a half-written temporary file stay.  A new
\* process takes its place.
process_exit(p) ==
    /\ pc[p] # "idle" \/ ck[p].pc # "idle" \/ fs[p].pc # "none" \/ swr[p].pc # "none"
    /\ flockHolder' = drop_flocks(p)
    /\ lock_fd' = [lock_fd EXCEPT ![p] = NoInode]
    /\ inodeContent' = Reclaim(inodeContent, lock_file, lock_fd')
    /\ pc' = [pc EXCEPT ![p] = "idle"]
    /\ ret' = [ret EXCEPT ![p] = "none"]
    /\ disturbed' = TRUE
    /\ ck' = [ck EXCEPT ![p] = IdleCall]
    /\ fs' = [fs EXCEPT ![p] = NoScanner]
    /\ swr' = [swr EXCEPT ![p] = IdleResume]
    /\ scan' = [scan EXCEPT ![p] = IdleScan]
    \* a scan that dies between two chunks is an interrupted scan
    /\ interruptedAt' = IF scan[p].next > 1 /\ scan[p].next \in scan[p].chunks
                        THEN [interruptedAt EXCEPT ![swr[p].file_path] = files[swr[p].file_path]]
                        ELSE interruptedAt
    /\ UNCHANGED <<lock_file, racers>>
    /\ UNCHANGED <<resume_dir, files, now, edits, corruptSeen>>
    /\ UNCHANGED <<summary_index_file, seen_file, summary_csv, completed>>
    /\ UNCHANGED pureVars

\* ------------------------------------------------------------------------
\* hits_from_text (pii/engine.py) with its validators (pii/validator.py,
\* pii/classifier.py)
\* ------------------------------------------------------------------------
\* the characters of the texts given to hits_from_text
MaxText == 20
\* the chunks the list of _chunk can hold before memory runs out
MaxChunks == 8

\* digit strings: a ZIP code, two 9-digit numbers (the first passes the ABA
\* checksum), two 16-digit numbers (the first passes the Luhn check)
ZipValue == <<9, 0, 2, 1, 0>>
RoutingValue == <<0, 2, 1, 0, 0, 0, 0, 2, 1>>
NineDigits == <<1, 2, 3, 4, 5, 6, 7, 8, 9>>
CardValue == <<4, 5, 3, 2, 0, 1, 5, 1, 1, 2, 8, 3, 0, 3, 6, 6>>
SixteenDigits == <<4, 5, 3, 2, 0, 1, 5, 1, 1, 2, 8, 3, 0, 3, 6, 7>>

Values == {ZipValue, RoutingValue, NineDigits, CardValue, SixteenDigits}

\* a text: len characters, of which those from position at on are the
\* digits of value; the other characters are blanks
Texts ==
    {[len |-> MaxText, value |-> v, at |-> a] :
        <<v, a>> \in {x \in Values \X (0..MaxText) : x[2] + Len(x[1]) <= MaxText}}

\* <<chunk_size, overlap>> of a call
ChunkParams == {<<8, 0>>, <<8, 5>>, <<MaxText, 5>>}

NoText == [len |-> 0, value |-> <<>>, at |-> 0]

IdleDetect == [pc |-> "idle", text |-> NoText, chunk_size |-> 0, overlap |-> 0,
               chunks |-> <<>>, start |-> 0, i |-> 0, all_hits |-> <<>>]

DetectInit == det = IdleDetect

Max2(a, b) == IF a >= b THEN a ELSE b

\* text[cs:ce]: the digits of the value that lie in the chunk and their
\* positions in the chunk
NoPiece == [digits |-> <<>>, start |-> 0, end |-> 0]

Slice(text, cs, ce) ==
    LET lo == Max2(text.at, cs)
        hi == Min({text.at + Len(text.value), ce})
    IN  IF lo < hi
        THEN [digits |-> SubSeq(text.value, lo - text.at + 1, hi - text.at),
              start |-> lo - cs, end |-> hi - cs]
        ELSE NoPiece

\* re.search of a pattern on a run of digits d between blanks or the ends
\* of the string
Matches(pattern, d) ==
    CASE pattern \in {"ID_RAW", "EIN_RAW", "NINE_DIGITS"} -> Len(d) = 9
      [] pattern \in {"ZIP_BASIC", "FIVE_DIGITS"} -> Len(d) = 5
      [] pattern = "EIGHT_DIGITS" -> Len(d) = 8
      [] pattern = "CREDIT_CARD_FORMATTED" -> Len(d) = 16
      [] pattern = "CREDIT_CARD_AMEX" ->
            Len(d) = 15 /\ d[1] = 3 /\ d[2] \in {4, 7}
      [] pattern = "CREDIT_CARD_RAW" ->
            \/ Len(d) = 16 /\ d[1] = 4
            \/ Len(d) = 16 /\ d[1] = 5 /\ d[2] \in 1..5
            \/ Len(d) = 15 /\ d[1] = 3 /\ d[2] \in {4, 7}
            \/ Len(d) = 16 /\ d[1] = 6 /\ d[2] = 0 /\ d[3] = 1 /\ d[4] = 1
            \/ Len(d) = 16 /\ d[1] = 6 /\ d[2] = 5
      [] pattern = "CARD_GROUPS" -> Len(d) \in 13..16
      [] pattern = "CARD_RUN" -> Len(d) \in 13..19
      [] pattern = "PHONE_US" ->
            Len(d) = 10 \/ (Len(d) = 11 /\ d[1] = 1)
      [] OTHER -> FALSE

\* the enhanced recognizers of build_analyzer whose patterns can match a run
\* of digits, with the scores of the patterns in hundredths
enhanced_recognizers ==
    << [entity_type |-> "ID",
        patterns |-> <<[name |-> "ID_RAW", score |-> 60]>>],
       [entity_type |-> "CREDIT_CARD",
        patterns |-> <<[name |-> "CREDIT_CARD_FORMATTED", score |-> 95],
                       [name |-> "CREDIT_CARD_AMEX", score |-> 95],
                       [name |-> "CREDIT_CARD_RAW", score |-> 90]>>],
       [entity_type |-> "EIN",
        patterns |-> <<[name |-> "EIN_RAW", score |-> 70]>>],
       [entity_type |-> "ZIP",
        patterns |-> <<[name |-> "ZIP_BASIC", score |-> 85]>>] >>

\* FALLBACK_REGEX, in the order of the dictionary, with the patterns that can
\* match a run of digits
FALLBACK_REGEX ==
    << [entity_type |-> "ID", patterns |-> <<"NINE_DIGITS">>],
       [entity_type |-> "EIN", patterns |-> <<"NINE_DIGITS">>],
       [entity_type |-> "ZIP", patterns |-> <<"FIVE_DIGITS">>],
       [entity_type |-> "CREDIT_CARD", patterns |-> <<"CARD_GROUPS", "CARD_RUN">>],
       [entity_type |-> "PHONE_NUMBER", patterns |-> <<"PHONE_US">>],
       [entity_type |-> "BANK_ROUTING", patterns |-> <<"NINE_DIGITS">>],
       [entity_type |-> "DRIVER_LICENSE", patterns |-> <<"EIGHT_DIGITS", "NINE_DIGITS">>] >>

RemoveAt(s, i) == SubSeq(s, 1, i - 1) \o SubSeq(s, i + 1, Len(s))

\* sorted(results, key=lambda x: x.score, reverse=True): a stable sort
RECURSIVE SortedByScore(_)
SortedByScore(results) ==
    IF results = <<>> THEN <<>>
    ELSE LET i == CHOOSE i \in DOMAIN results :
                     \A j \in DOMAIN results :
                        \/ results[i].score > results[j].score
                        \/ results[i].score = results[j].score /\ i <= j
         IN  <<results[i]>> \o SortedByScore(RemoveAt(results, i))

RECURSIVE KeepNonOverlapping(_, _)
KeepNonOverlapping(sorted_results, filtered) ==
    IF sorted_results = <<>> THEN filtered
    ELSE LET result == Head(sorted_results)
             overlaps == \E k \in DOMAIN filtered :
                            /\ result.start < filtered[k].end
                            /\ result.end > filtered[k].start
         IN  KeepNonOverlapping(Tail(sorted_results),
                                IF overlaps THEN filtered
                                ELSE Append(filtered, result))

\* a variant that takes the results as they come, without the sort
_filter_overlapping_results_unsorted(results) ==
    KeepNonOverlapping(results, <<>>)

\* EnhancedRobustRecognizer._filter_overlapping_results
_filter_overlapping_results(results) ==
    KeepNonOverlapping(SortedByScore(results), <<>>)

\* EnhancedRobustRecognizer.analyze: one result per pattern that matches,
\* then the filter
EnhancedRobustRecognizer_analyze(recognizer, piece) ==
    LET Found(pattern) == Matches(pattern.name, piece.digits)
        found == SelectSeq(recognizer.patterns, Found)
    IN  _filter_overlapping_results(
            [k \in 1..Len(found) |->
                [entity_type |-> recognizer.entity_type,
                 start |-> piece.start, end |-> piece.end,
                 score |-> found[k].score]])

\* analyzer.analyze(text=chunk, entities=[...]): the results of every
\* recognizer of the registry
RECURSIVE analyzer_analyze(_, _)
analyzer_analyze(recognizers, piece) ==
    IF recognizers = <<>> THEN <<>>
    ELSE EnhancedRobustRecognizer_analyze(Head(recognizers), piece)
            \o analyzer_analyze(Tail(recognizers), piece)

\* "from config import (...)" of pii/validator.py, and the names that
\* config.py defines
validator_imports ==
    {"CONTEXT_BOOST", "CONTEXT_KEYWORDS", "FALSE_POSITIVE_INDICATORS",
     "FALSE_POSITIVE_PENALTY", "INVALID_AREA_CODES", "INVALID_ID_PATTERNS",
     "MIN_CONFIDENCE"}

config_names ==
    {"MAX_WORKERS", "CHUNK_SIZE", "CHUNK_OVERLAP", "MIN_FILE_SIZE",
     "MAX_FILE_SIZE", "BATCH_SIZE", "MIN_CONFIDENCE", "HIGH_CONFIDENCE",
     "CONTEXT_BOOST", "FALSE_POSITIVE_PENALTY", "SKIP_DIRS",
     "CONTEXT_KEYWORDS", "FALSE_POSITIVE_INDICATORS", "INVALID_SSN_PATTERNS",
     "INVALID_AREA_CODES", "FILE_SIZE_CATEGORIES", "FEATURES", "DEBUG",
     "VERBOSE", "SHOW_PROGRESS", "LOG_SKIPPED_FILES"}

\* FEATURES["context_validation"]
context_validation == TRUE

\* _process_with_presidio: "from .validator import ContextValidator" inside
\* try / except ImportError: pass
validator ==
    IF context_validation /\ validator_imports \subseteq config_names
    THEN "ContextValidator" ELSE "None"

\* MIN_CONFIDENCE of config.py, in hundredths
MIN_CONFIDENCE == 50

RECURSIVE LuhnTotal(_, _)
LuhnTotal(reverse_digits, i) ==
    IF i > Len(reverse_digits) THEN 0
    ELSE LET n == reverse_digits[i]
             doubled == IF n * 2 > 9 THEN n * 2 - 9 ELSE n * 2
         IN  (IF (i - 1) % 2 = 1 THEN doubled ELSE n)
                + LuhnTotal(reverse_digits, i + 1)

\* ContextValidator._luhn_check
_luhn_check(digits) ==
    IF Len(digits) < 13 THEN FALSE
    ELSE LuhnTotal([k \in 1..Len(digits) |-> digits[Len(digits) + 1 - k]], 1) % 10 = 0

\* the test card numbers validate_credit_card rejects
TestCards ==
    {<<4, 1, 1, 1, 1, 1, 1, 1, 1, 1, 1, 1, 1, 1, 1, 1>>,
     <<5, 5, 5, 5, 5, 5, 5, 5, 5, 5, 5, 5, 4, 4, 4, 4>>,
     <<3, 7, 8, 2, 8, 2, 2, 4, 6, 3, 1, 0, 0, 0, 5>>}

\* ContextValidator.validate_credit_card: is_valid (no context keyword
\* surrounds the values of the model: the adjustment is 0)
validate_credit_card(value) == _luhn_check(value) /\ value \notin TestCards

\* ContextValidator.validate_id: is_valid
validate_id(value) ==
    /\ Cardinality({value[k] : k \in DOMAIN value}) # 1
    /\ ~(value[1] = 0 /\ value[2] = 0 /\ value[3] = 0)
    /\ ~(value[1] = 6 /\ value[2] = 6 /\ value[3] = 6)
    /\ value[1] * 100 + value[2] * 10 + value[3] <= 899

\* ContextValidator.validate_entity: <<is_valid, adjusted confidence>>
validate_entity(entity_type, value, confidence) ==
    CASE entity_type = "CREDIT_CARD" ->
            IF validate_credit_card(value) /\ confidence >= MIN_CONFIDENCE
            THEN <<TRUE, confidence>> ELSE <<FALSE, 0>>
      [] entity_type = "ID" ->
            IF validate_id(value) /\ confidence >= MIN_CONFIDENCE
            THEN <<TRUE, confidence>> ELSE <<FALSE, 0>>
      [] OTHER -> <<confidence >= MIN_CONFIDENCE, confidence>>

\* validate_aba_routing of pii/classifier.py
validate_aba_routing(routing) ==
    LET weights == <<3, 7, 1, 3, 7, 1, 3, 7, 1>>
        Sum9(d) == d[1] * weights[1] + d[2] * weights[2] + d[3] * weights[3]
                   + d[4] * weights[4] + d[5] * weights[5] + d[6] * weights[6]
                   + d[7] * weights[7] + d[8] * weights[8] + d[9] * weights[9]
    IN  IF Len(routing) # 9 THEN FALSE ELSE Sum9(routing) % 10 = 0

\* _process_with_presidio: the EntityHit of each result the validator (if
\* there is one) accepts, at chunk_offset + its position in the chunk
HitsOfResults(results, piece, chunk_offset) ==
    LET Accepted(result) ==
            \/ validator = "None"
            \/ validate_entity(result.entity_type, piece.digits, result.score)[1]
        kept == SelectSeq(results, Accepted)
    IN  [k \in 1..Len(kept) |->
            [entity_type |-> kept[k].entity_type,
             value |-> piece.digits,
             start |-> chunk_offset + kept[k].start,
             end |-> chunk_offset + kept[k].end,
             score |-> kept[k].score]]

\* _process_with_fallback: re.finditer of every pattern of every entity type
\* over the whole text; score 0.7
RECURSIVE FallbackHits(_, _)
FallbackHits(entries, text) ==
    IF entries = <<>> THEN <<>>
    ELSE LET entry == Head(entries)
             Found(pattern) == Matches(pattern, text.value)
             found == SelectSeq(entry.patterns, Found)
         IN  [k \in 1..Len(found) |->
                 [entity_type |-> entry.entity_type,
                  value |-> text.value,
                  start |-> text.at,
                  end |-> text.at + Len(text.value),
                  score |-> 70]]
                \o FallbackHits(Tail(entries), text)

\* hits_from_text(text, chunk_size, overlap): build_analyzer() gives the
\* analyzer, or None when Presidio cannot be set up; _chunk returns the
\* text itself when it is no longer than size
hits_from_text_call(text, params, analyzer) ==
    /\ det.pc \in {"idle", "returned", "raised"}
    /\ det' = [IdleDetect EXCEPT
                 !.text = text,
                 !.chunk_size = params[1],
                 !.overlap = params[2],
                 !.i = 1,
                 !.chunks = IF analyzer /\ text.len <= params[1]
                            THEN <<<<0, text.len>>>> ELSE <<>>,
                 !.pc = IF ~analyzer THEN "fallback"
                        ELSE IF text.len <= params[1] THEN "analyze"
                        ELSE "chunk"]

\* _chunk: one turn of "while start < len(text)"; the append raises
\* MemoryError when the list cannot grow, which leaves hits_from_text
_chunk_loop ==
    LET end == Min({det.start + det.chunk_size, det.text.len})
    IN /\ det.pc = "chunk"
       /\ IF Len(det.chunks) >= MaxChunks
          THEN det' = [det EXCEPT !.pc = "raised"]
          ELSE det' = [det EXCEPT
                         !.chunks = Append(@, <<det.start, end>>),
                         !.start = end - det.overlap,
                         !.pc = IF end - det.overlap >= det.text.len
                                THEN "analyze" ELSE "chunk"]

\* _process_with_presidio: one turn of "for i, chunk in enumerate(chunks)"
_process_with_presidio_chunk ==
    LET chunk == det.chunks[det.i]
        piece == Slice(det.text, chunk[1], chunk[2])
        results == analyzer_analyze(enhanced_recognizers, piece)
        chunk_offset == (det.i - 1) * (det.chunk_size - det.overlap)
    IN /\ det.pc = "analyze"
       /\ det' = [det EXCEPT
                    !.all_hits = @ \o HitsOfResults(results, piece, chunk_offset),
                    !.i = @ + 1,
                    !.pc = IF det.i = Len(det.chunks) THEN "returned"
                           ELSE "analyze"]

_process_with_fallback ==
    /\ det.pc = "fallback"
    /\ det' = [det EXCEPT !.all_hits = FallbackHits(FALLBACK_REGEX, det.text),
                          !.pc = "returned"]

\* ------------------------------------------------------------------------
\* UniversalLargeFileScanner._choose_strategy
\* ------------------------------------------------------------------------
\* file sizes and available memory in MB, extensions
Sizes == {10, 20, 21, 50, 51, 100, 101, 500, 501, 600, 1000, 1201}
Memories == {800, 1200, 2000, 2402}
Extensions == {".csv", ".txt", ".json"}

NoFileInfo == [size_mb |-> 0, available_memory_mb |-> 0, type |-> "",
               is_structured |-> FALSE, is_binary |-> FALSE,
               strategy |-> "none"]

StrategyInit == file_info = NoFileInfo

\* a variant: the test for large files comes before the test for very large
\* ones
_choose_strategy_large_first(file_size_mb, available_memory_mb, file_ext, is_structured, is_binary) ==
    IF is_binary
    THEN IF file_size_mb > 100 THEN "chunked_streaming" ELSE "standard"
    ELSE IF file_ext = ".csv" /\ file_size_mb > 50 THEN "csv_streaming"
    ELSE IF file_size_mb > 100 THEN "parallel_chunks"
    ELSE IF file_size_mb > 500 /\ ~is_structured
    THEN IF file_size_mb * 2 < available_memory_mb
         THEN "memory_mapped" ELSE "parallel_chunks"
    ELSE IF file_size_mb > 20 THEN "chunked_streaming"
    ELSE "standard"

\* file_size_mb < available_memory_mb * 0.5 is size * 2 < memory
_choose_strategy(file_size_mb, available_memory_mb, file_ext, is_structured, is_binary) ==
    IF is_binary
    THEN IF file_size_mb > 100 THEN "chunked_streaming" ELSE "standard"
    ELSE IF file_ext = ".csv" /\ file_size_mb > 50 THEN "csv_streaming"
    ELSE IF file_size_mb > 500 /\ ~is_structured
    THEN IF file_size_mb * 2 < available_memory_mb
         THEN "memory_mapped" ELSE "parallel_chunks"
    ELSE IF file_size_mb > 100 THEN "parallel_chunks"
    ELSE IF file_size_mb > 20 THEN "chunked_streaming"
    ELSE "standard"

\* _analyze_file: the file_info with the strategy chosen for the file
_analyze_file(file_size_mb, available_memory_mb, file_ext, is_structured, is_binary) ==
    file_info' = [size_mb |-> file_size_mb,
                  available_memory_mb |-> available_memory_mb,
                  type |-> file_ext,
                  is_structured |-> is_structured,
                  is_binary |-> is_binary,
                  strategy |-> _choose_strategy(file_size_mb, available_memory_mb,
                                                file_ext, is_structured, is_binary)]

\* ------------------------------------------------------------------------
\* FileScanner.scan_directory: one _scan_one per eligible entry
\* ------------------------------------------------------------------------
MaxEntries == 3

\* what the body of _scan_one does for an entry of the directory: it
\* completes, finds a duplicate, or one of its calls raises (scan_file_once
\* and iter_file_text raise ValueError, FileNotFoundError, PermissionError
\* and SkippedEncryptedPDF, the detector any Exception, and the loop of
\* _chunk ends in MemoryError); "ineligible" entries are directories and
\* files whose suffix is not in self.exts
ScanErrors == {"SkippedEncryptedPDF", "ValueError", "FileNotFoundError",
               "PermissionError", "DetectorError", "MemoryError"}
Entries == {"ok", "duplicate", "ineligible"} \cup ScanErrors

IdleDir == [pc |-> "idle", entries |-> <<>>, i |-> 0, processed_count |-> 0,
            scanned |-> {}, stderr |-> {}]

\* a variant: the except clauses of _scan_one let an error of the detector
\* pass
_scan_one_uncaught(entry) ==
    IF entry = "ok" THEN "True" ELSE IF entry = "DetectorError" THEN "raise" ELSE "False"

\* _scan_one: True when the file was processed; False for a duplicate, for
\* SkippedEncryptedPDF and for every other Exception
_scan_one(entry) == IF entry = "ok" THEN "True" ELSE "False"

\* scan_directory(directory) on a directory that exists, up to the loop;
\* `entries` collects the entries as rglob("*") or iterdir() yields them
scan_directory ==
    /\ sd.pc = "idle"
    /\ sd' = [IdleDir EXCEPT !.pc = "loop", !.i = 1]

\* one round of the for loop, for the next entry of the directory
scan_directory_loop(entry) ==
    /\ sd.pc = "loop"
    /\ Len(sd.entries) < MaxEntries
    /\ LET listed == [sd EXCEPT !.entries = Append(sd.entries, entry), !.i = sd.i + 1]
           r == _scan_one(entry)
       IN  IF entry = "ineligible"
              THEN sd' = listed
           ELSE IF r = "raise"
              THEN sd' = [listed EXCEPT !.pc = "raised", !.scanned = sd.scanned \cup {sd.i}]
              ELSE sd' = [listed EXCEPT
                            !.scanned = sd.scanned \cup {sd.i},
                            !.stderr = IF entry \in ScanErrors
                                       THEN sd.stderr \cup {sd.i} ELSE sd.stderr,
                            !.processed_count =
                                IF r = "True" THEN sd.processed_count + 1
                                ELSE sd.processed_count]

\* the directory has no more entries: return processed_count
scan_directory_return ==
    /\ sd.pc = "loop"
    /\ sd' = [sd EXCEPT !.pc = "returned"]

\* ------------------------------------------------------------------------
\* ParallelPIIScanner.scan_large_file with its ProgressTracker and its
\* ProgressMonitor
\* ------------------------------------------------------------------------
MaxYields == 3

\* chunk_rows of stream_concatenated_text: stream_chunks counts the rows of a
\* block of this many rows before it yields the block (1000 in the call)
chunk_rows == 2

\* total_items of a ProgressTracker made without a total
None == -1

\* ProgressTracker.__init__, ProgressMonitor.__init__ and the locals of the
\* scan: the rows StreamingCSVProcessor has counted, the futures not yet
\* collected, the text chunks yielded so far; the statistics print_progress
\* displayed last
NoStats == [processed_items |-> 0, total_items |-> None, entities_found |-> 0,
            controlled_entities |-> 0, noncontrolled_entities |-> 0,
            files_processed |-> 0, bytes_processed |-> 0]

IdleProgress ==
    [pc |-> "idle", csv |-> FALSE, tracker |-> NoStats, rows_processed |-> 0,
     futures |-> 0, yields |-> 0, result |-> "none",
     monitor_thread |-> "none", stop_event |-> FALSE,
     displayed |-> NoStats, final_update |-> FALSE]

\* ProgressTracker.update
update(tracker, processed, entities, controlled, noncontrolled, bytes_count) ==
    [tracker EXCEPT !.processed_items = @ + processed,
                    !.entities_found = @ + entities,
                    !.controlled_entities = @ + controlled,
                    !.noncontrolled_entities = @ + noncontrolled,
                    !.bytes_processed = @ + bytes_count]

\* _collect_results for n futures that complete within the timeout, each
\* with one entity, of which `controlled` are Controlled: one
\* tracker.update(entities=, controlled=, noncontrolled=) per future, whose
\* parameter processed keeps its default of 1
_collect_results(tracker, n, controlled) ==
    update(tracker, n, n, controlled, n - controlled, 0)

\* scan_large_file up to the loop over the text chunks
scan_large_file(csv, estimated_rows) ==
    /\ pg.pc = "idle"
    /\ pg' = [IdleProgress EXCEPT
                !.pc = "stream", !.csv = csv,
                !.tracker.total_items = IF csv THEN estimated_rows ELSE None]

\* as_completed(futures, timeout=1) raised TimeoutError after `done` futures:
\* _scan_file_parallel catches it and returns what it has, after which
\* scan_large_file starts the monitor; out of _scan_csv_parallel it reaches
\* the except clause of scan_large_file, which calls monitor.stop() and
\* returns the error
AfterCollectTimeout(p, tracker) ==
    IF p.csv
       THEN [p EXCEPT !.pc = "returned", !.tracker = tracker, !.result = "error",
                      !.stop_event = TRUE]
       ELSE [p EXCEPT !.pc = "started", !.tracker = tracker, !.result = "entities",
                      !.monitor_thread = "waiting"]

\* one round of the loop of _scan_csv_parallel / _scan_file_parallel: a text
\* chunk of one byte is yielded (from the rows of the block counted last or
\* after a new block of rows was counted), submitted and reported to the
\* tracker; at max_workers * 2 futures the results are collected
_scan_parallel_chunk(new_block, done, controlled) ==
    /\ pg.pc = "stream"
    /\ pg.yields < MaxYields
    /\ new_block \/ pg.yields > 0
    /\ LET rows_processed == IF new_block THEN pg.rows_processed + chunk_rows
                             ELSE pg.rows_processed
           futures == pg.futures + 1
           updated == IF pg.csv
                      THEN update(pg.tracker,
                                  rows_processed - pg.tracker.processed_items, 0, 0, 0, 1)
                      ELSE update(pg.tracker, 1, 0, 0, 0, 1)
           p == [pg EXCEPT !.rows_processed = rows_processed, !.yields = @ + 1]
       IN  IF futures < max_workers * 2
              THEN /\ done = 0 /\ controlled = 0
                   /\ pg' = [p EXCEPT !.futures = futures, !.tracker = updated]
              ELSE /\ done <= futures /\ controlled <= done
                   /\ LET collected == _collect_results(updated, done, controlled)
                      IN  IF done < futures
                             THEN pg' = AfterCollectTimeout(p, collected)
                             ELSE pg' = [p EXCEPT !.futures = 0, !.tracker = collected]

\* the text is exhausted: the remaining results are collected, the scan
\* returns its result and scan_large_file calls monitor.start()
_scan_parallel_collect_remaining(done, controlled) ==
    /\ pg.pc = "stream"
    /\ pg.yields > 0
    /\ done <= pg.futures /\ controlled <= done
    /\ LET collected == _collect_results(pg.tracker, done, controlled)
       IN  IF done < pg.futures
              THEN pg' = AfterCollectTimeout(pg, collected)
              ELSE pg' = [pg EXCEPT !.pc = "started", !.futures = 0,
                                    !.tracker = collected, !.result = "entities",
                                    !.monitor_thread = "waiting"]

\* monitor.stop(): the stop request, then join(timeout=2.0)
ProgressMonitor_stop ==
    /\ pg.pc = "started"
    /\ pg' = [pg EXCEPT !.pc = "joining", !.stop_event = TRUE]

\* a variant: the loop ends without its final update
_monitor_loop_without_final_update ==
    /\ pg.monitor_thread = "waiting"
    /\ IF pg.stop_event
          THEN pg' = [pg EXCEPT !.monitor_thread = "done"]
          ELSE pg' = [pg EXCEPT !.displayed = pg.tracker]

\* the monitor thread: stop_event.wait(update_interval) times out and
\* print_progress displays get_stats(), or the event is set and the loop
\* ends with the final print_progress
_monitor_loop ==
    /\ pg.monitor_thread = "waiting"
    /\ IF pg.stop_event
          THEN pg' = [pg EXCEPT !.monitor_thread = "done", !.displayed = pg.tracker,
                                !.final_update = TRUE]
          ELSE pg' = [pg EXCEPT !.displayed = pg.tracker]

\* join returns, because the thread ended or after 2.0 seconds;
\* tracker.finish() and the return of the result
scan_large_file_return ==
    /\ pg.pc = "joining"
    /\ pg' = [pg EXCEPT !.pc = "returned"]

\* ------------------------------------------------------------------------
\* MemoryManager.get_optimal_chunk_size
\* ------------------------------------------------------------------------
MaxAvailable == 240

\* psutil.virtual_memory().available, in bytes: 0 to 600 MB in steps of
\* 2.5 MB, and the bytes next to 10 MB and 500 MB, where the first clamp
\* starts and ends
AvailableMemory ==
    {k * 2621440 : k \in 0..MaxAvailable}
        \cup {10485759, 10485760, 10485780, 524287999, 524288000, 524288020}

\* a variant: the number of characters is returned as computed
get_optimal_chunk_size_unclamped(file_size_mb, available) ==
    LET chunk_bytes == Min({Max2(available \div 10, 1024 * 1024), 50 * 1024 * 1024})
    IN  chunk_bytes \div 2

\* a variant whose first clamp starts at 1 KB instead of 1 MB
get_optimal_chunk_size_kb_floor(file_size_mb, available) ==
    LET chunk_bytes == Min({Max2(available \div 10, 1024), 50 * 1024 * 1024})
        chunk_chars == chunk_bytes \div 2
    IN  Max2(Min({chunk_chars, 50000}), 1000)

\* get_optimal_chunk_size(file_size_mb), in whole bytes: chunk_mb megabytes
\* are chunk_bytes bytes, and int() truncates; available is what
\* get_available_memory_mb reads, and file_size_mb is not used
get_optimal_chunk_size(file_size_mb, available) ==
    LET chunk_bytes == Min({Max2(available \div 10, 1024 * 1024), 50 * 1024 * 1024})
        chunk_chars == chunk_bytes \div 2
    IN  Max2(Min({chunk_chars, 50000}), 1000)

\* _analyze_file: chunk_size = self.memory_manager.get_optimal_chunk_size(
\* file_size_mb)
MemoryManager_call(file_size_mb, available) ==
    /\ mm.pc = "idle"
    /\ mm' = [pc |-> "returned", file_size_mb |-> file_size_mb,
              available |-> available,
              chunk_size |-> get_optimal_chunk_size(file_size_mb, available)]

\* ------------------------------------------------------------------------
\* ResumeManager.list_pending_checkpoints on a resume directory of several
\* checkpoint files
\* ------------------------------------------------------------------------
MaxCheckpoints == 3

\* a checkpoint file of the directory: it does not parse ("corrupted"), its
\* target file is gone ("orphaned"), the path or the fingerprint it stores
\* is not that of its target ("mismatched"), or both match ("matching");
\* save_time is in hours before the call (now = 0)
CheckpointFiles ==
    [kind : {"corrupted", "orphaned", "mismatched", "matching"},
     save_time : {0 - 30, 0 - 20, 0 - 10}]

\* a variant: the list is returned in the order of glob
sort_as_listed(pending) == pending

\* pending.sort(key=lambda x: x.get("save_time", ""), reverse=True): a stable
\* sort; the ISO strings of datetime.now() order as the times do
RECURSIVE sort_newest_first(_)
sort_newest_first(pending) ==
    IF pending = <<>> THEN <<>>
    ELSE LET i == CHOOSE i \in DOMAIN pending :
                     \A j \in DOMAIN pending :
                        \/ pending[i].save_time > pending[j].save_time
                        \/ pending[i].save_time = pending[j].save_time /\ i <= j
         IN  <<pending[i]>> \o sort_newest_first(RemoveAt(pending, i))

\* list_pending_checkpoints() up to the loop over glob("checkpoint_*.json");
\* `before` collects the checkpoint files of the directory as glob yields
\* them, resume_dir is what the directory holds of them
list_pending_checkpoints ==
    /\ lp.pc = "idle"
    /\ lp' = [lp EXCEPT !.pc = "loop"]

\* one round of the loop, for the next checkpoint file c of the directory:
\* json.load raises and the file is unlinked, or the target exists and
\* _is_checkpoint_valid holds and the checkpoint is appended to pending, or
\* the file is unlinked
list_pending_checkpoints_loop(c) ==
    /\ lp.pc = "loop"
    /\ Len(lp.before) < MaxCheckpoints
    /\ LET cf == Len(lp.before) + 1
           globbed == [lp EXCEPT !.before = Append(lp.before, c)]
       IN  IF c.kind = "corrupted"
              THEN lp' = globbed
           ELSE IF c.kind # "orphaned" /\ c.kind # "mismatched" /\ age_ok(c)
              THEN lp' = [globbed EXCEPT
                            !.resume_dir = lp.resume_dir \cup {cf},
                            !.pending = Append(lp.pending,
                                               [checkpoint_file |-> cf,
                                                save_time |-> c.save_time])]
              ELSE lp' = globbed

\* the sort and the return
list_pending_checkpoints_return ==
    /\ lp.pc = "loop"
    /\ lp' = [lp EXCEPT !.pc = "returned", !.pending = sort_newest_first(lp.pending)]

\* ------------------------------------------------------------------------
\* EnhancedRobustRecognizer._filter_overlapping_results on raw matches
\* ------------------------------------------------------------------------
\* the longest list of raw matches of a call
MaxResults == 3

\* the spans and the scores (in hundredths) of the raw matches: two spans
\* that touch and one that intersects both
Spans == {<<0, 2>>, <<1, 3>>, <<2, 4>>}
Scores == {60, 90}

\* RecognizerResult(entity_type, start, end, score)
RecognizerResults ==
    [entity_type : {"ID", "EIN"}, start : {0, 1, 2}, end : {2, 3, 4},
     score : Scores]

RawMatches ==
    {r \in RecognizerResults : <<r.start, r.end>> \in Spans}

IdleFilter == [pc |-> "idle", results |-> <<>>, filtered |-> <<>>]

\* filtered_results = self._filter_overlapping_results(results), once
_filter_overlapping_results_call(results) ==
    /\ fo.pc = "idle"
    /\ fo' = [pc |-> "returned", results |-> results,
              filtered |-> _filter_overlapping_results(results)]

\* ------------------------------------------------------------------------
\* ProgressTracker.update and get_stats called by several threads
\* ------------------------------------------------------------------------
\* the updates one thread makes
MaxUpdates == 2

\* the threads that call update, and the thread that calls get_stats (the
\* monitor thread)
Updaters == {1, 2}
Reader == 3
NoThread == 0

\* the counters in the order update adds to them, and in the order
\* get_stats reads them into the dictionary it returns
update_order ==
    <<"processed_items", "entities_found", "controlled_entities",
      "noncontrolled_entities", "bytes_processed">>
get_stats_order ==
    <<"processed_items", "bytes_processed", "entities_found",
      "controlled_entities", "noncontrolled_entities">>

ZeroCounters ==
    [processed_items |-> 0, entities_found |-> 0, controlled_entities |-> 0,
     noncontrolled_entities |-> 0, bytes_processed |-> 0]

\* the arguments (processed, entities, controlled, noncontrolled,
\* bytes_count) of the update calls
UpdateArgs ==
    {[processed_items |-> 1, entities_found |-> 2, controlled_entities |-> 1,
      noncontrolled_entities |-> 1, bytes_processed |-> 4],
     [processed_items |-> 1, entities_found |-> 0, controlled_entities |-> 0,
      noncontrolled_entities |-> 0, bytes_processed |-> 2]}

IdleThread == [pc |-> "idle", args |-> ZeroCounters, i |-> 0, loaded |-> 0,
               stats |-> ZeroCounters, updates |-> 0]

\* ProgressTracker.__init__: the counters at 0, self.lock free; calls are
\* the arguments of the update calls made so far, returned the number of
\* get_stats calls that returned
NewTracker ==
    [lock |-> NoThread, counters |-> ZeroCounters,
     th |-> [t \in Updaters \cup {Reader} |-> IdleThread],
     calls |-> <<>>, returned |-> 0]

\* a variant of the lock that lets every thread in
acquire_unlocked(lock) == TRUE

\* threading.Lock.acquire (blocking): the thread goes on when the lock is
\* free
acquire(lock) == lock = NoThread

\* update(...): "with self.lock:"
update_acquire(t, args) ==
    /\ pt.th[t].pc = "idle"
    /\ pt.th[t].updates < MaxUpdates
    /\ acquire(pt.lock)
    /\ pt' = [pt EXCEPT !.lock = t,
                        !.calls = Append(@, args),
                        !.th[t].pc = "load", !.th[t].args = args,
                        !.th[t].i = 1]

\* update: "self.<counter> += n", the read of the attribute
update_load(t) ==
    /\ pt.th[t].pc = "load"
    /\ pt' = [pt EXCEPT !.th[t].loaded = pt.counters[update_order[pt.th[t].i]],
                        !.th[t].pc = "store"]

\* update: "self.<counter> += n", the addition and the write of the
\* attribute; after the last counter (and last_update) the lock is released
update_store(t) ==
    LET i == pt.th[t].i
        counter == update_order[i]
        last == i = Len(update_order)
    IN /\ pt.th[t].pc = "store"
       /\ pt' = [pt EXCEPT
                   !.counters[counter] = pt.th[t].loaded + pt.th[t].args[counter],
                   !.th[t].i = IF last THEN 0 ELSE i + 1,
                   !.th[t].pc = IF last THEN "idle" ELSE "load",
                   !.th[t].updates = IF last THEN @ + 1 ELSE @,
                   !.lock = IF last /\ pt.lock = t THEN NoThread ELSE @]

\* get_stats(): "with self.lock:"
get_stats_acquire(t) ==
    /\ pt.th[t].pc = "idle"
    /\ acquire(pt.lock)
    /\ pt' = [pt EXCEPT !.lock = t, !.th[t].pc = "read", !.th[t].i = 1]

\* get_stats: the read of one counter into the dictionary; after the last
\* one the dictionary is returned and the lock released
get_stats_read(t) ==
    LET i == pt.th[t].i
        counter == get_stats_order[i]
        last == i = Len(get_stats_order)
    IN /\ pt.th[t].pc = "read"
       /\ pt' = [pt EXCEPT
                   !.th[t].stats[counter] = pt.counters[counter],
                   !.th[t].i = IF last THEN 0 ELSE i + 1,
                   !.th[t].pc = IF last THEN "idle" ELSE "read",
                   !.returned = IF last THEN 1 ELSE @,
                   !.lock = IF last /\ pt.lock = t THEN NoThread ELSE @]

\* ------------------------------------------------------------------------
\* classify_label / SimplifiedControlledDetector.classify_entity
\* ------------------------------------------------------------------------
\* the longest phone number, in digits
MaxDigits == 13

\* a phone number without separators: an optional "+", then len digits of
\* which the first two are d1 and d2
Phones == [plus : BOOLEAN, d1 : {0, 1, 2}, d2 : {0, 2}, len : 1..MaxDigits]

\* an address, as the outcome of each re.search of _classify_address on it:
\* foreign_postal is the first of the four postal formats that matches, or 0
Addresses ==
    [state_zip : BOOLEAN, foreign_postal : 0..4, non_english : BOOLEAN,
     country : BOOLEAN, controlled_format : BOOLEAN, zip_alone : BOOLEAN]

\* the letters after the last dot of an email address (none when it has no
\* dot)
Tlds ==
    {<<"g", "o", "v">>, <<"e", "d", "u">>, <<"c", "o", "m">>,
     <<"i", "n", "f", "o">>, <<"d", "e">>, <<"u", "k">>, <<"x", "y", "z">>,
     <<"m", "u", "s", "e", "u", "m">>, <<>>}

\* a social-media handle: a linkedin.com/in/ URL, a facebook.com/ URL, a
\* handle that starts with "@", or another string
Handles == {"linkedin.com/in/x", "facebook.com/x", "@x", "x"}

\* the word of the context that the context patterns look for, if any
Contexts == {"", "uk", "worldwide", "germany"}

ClassifyInputs ==
    ({"PHONE_NUMBER"} \X Phones) \cup ({"ADDRESS"} \X Addresses)
        \cup ({"EMAIL_ADDRESS"} \X Tlds) \cup ({"SOCIAL_MEDIA_HANDLE"} \X Handles)
        \cup ({"ID", "CREDIT_CARD", "PERSON"} \X {"x"})

\* (classification, confidence in hundredths)
Classified(label, confidence) == [label |-> label, confidence |-> confidence]

\* ^\+?1[\s\-\.]?\(?[2-9]\d{2}\)?[\s\-\.]?\d{3}[\s\-\.]?\d{4}$
phone_controlled_format(phone) ==
    phone.len = 11 /\ phone.d1 = 1 /\ phone.d2 \in 2..9

\* ^\+(?!1\b)\d{1,4}[\s\-\.]?\d : a "+" and two digits or more (between
\* two digits there is no word boundary)
phone_plus_code(phone) == phone.plus /\ phone.len >= 2

\* a variant of _classify_phone whose fallback leans NonControlled
_classify_phone_lean_noncontrolled(phone) ==
    IF phone_controlled_format(phone) THEN Classified("Controlled", 95)
    ELSE IF phone_plus_code(phone) THEN Classified("NonControlled", 90)
    ELSE IF phone.len = 10 /\ phone.d1 \in 2..9 THEN Classified("Controlled", 80)
    ELSE IF phone.len = 11 /\ phone.d1 = 1 THEN Classified("Controlled", 85)
    ELSE IF phone.len > 11 THEN Classified("NonControlled", 75)
    ELSE IF phone.len < 10 THEN Classified("NonControlled", 60)
    ELSE Classified("NonControlled", 50)

\* SimplifiedControlledDetector._classify_phone; cleaned is the digits
_classify_phone(phone) ==
    IF phone_controlled_format(phone) THEN Classified("Controlled", 95)
    ELSE IF phone_plus_code(phone) THEN Classified("NonControlled", 90)
    ELSE IF phone.len = 10 /\ phone.d1 \in 2..9 THEN Classified("Controlled", 80)
    ELSE IF phone.len = 11 /\ phone.d1 = 1 THEN Classified("Controlled", 85)
    ELSE IF phone.len > 11 THEN Classified("NonControlled", 75)
    ELSE IF phone.len < 10 THEN Classified("NonControlled", 60)
    ELSE Classified("Controlled", 50)

\* the confidence of each foreign postal format of _classify_address
postal_confidence == <<95, 95, 90, 85>>

\* SimplifiedControlledDetector._classify_address
_classify_address(address) ==
    IF address.state_zip THEN Classified("Controlled", 95)
    ELSE IF address.foreign_postal # 0
    THEN Classified("NonControlled", postal_confidence[address.foreign_postal])
    ELSE IF address.non_english THEN Classified("NonControlled", 80)
    ELSE IF address.country THEN Classified("NonControlled", 85)
    ELSE IF address.controlled_format THEN Classified("Controlled", 75)
    ELSE IF address.zip_alone THEN Classified("Controlled", 90)
    ELSE Classified("Controlled", 50)

official_tlds == {<<"g", "o", "v">>, <<"m", "i", "l">>, <<"e", "d", "u">>}
generic_tlds ==
    {<<"c", "o", "m">>, <<"o", "r", "g">>, <<"n", "e", "t">>,
     <<"i", "n", "f", "o">>, <<"b", "i", "z">>}

\* SimplifiedControlledDetector._classify_email: \.(?:gov|mil|edu)$, then
\* \.(?!com|org|net|info|biz)[a-z]{2}$, then \.(?:com|org|net|info|biz)$
\* with the words of the context
_classify_email(tld, context) ==
    IF tld \in official_tlds THEN Classified("Controlled", 95)
    ELSE IF Len(tld) = 2 THEN Classified("NonControlled", 90)
    ELSE IF tld \in generic_tlds
    THEN IF context \in {"uk", "worldwide"}
         THEN Classified("NonControlled", 70)
         ELSE Classified("Controlled", 65)
    ELSE Classified("NonControlled", 60)

\* SimplifiedControlledDetector._classify_social_media
_classify_social_media(handle, context) ==
    IF handle = "linkedin.com/in/x"
    THEN IF context = "uk" THEN Classified("NonControlled", 80)
         ELSE Classified("Controlled", 70)
    ELSE IF handle = "facebook.com/x"
    THEN IF context = "uk" THEN Classified("NonControlled", 75)
         ELSE Classified("Controlled", 65)
    ELSE IF handle = "@x"
    THEN IF context # "" THEN Classified("NonControlled", 70)
         ELSE Classified("Controlled", 60)
    ELSE Classified("NonControlled", 50)

\* SimplifiedControlledDetector.classify_entity
classify_entity(entity_type, value, context) ==
    CASE entity_type = "ID" -> Classified("Controlled", 95)
      [] entity_type = "DRIVER_LICENSE" -> Classified("Controlled", 90)
      [] entity_type = "EIN" -> Classified("Controlled", 95)
      [] entity_type = "ZIP" -> Classified("Controlled", 90)
      [] entity_type = "CREDIT_CARD" -> Classified("NonControlled", 80)
      [] entity_type = "PHONE_NUMBER" -> _classify_phone(value)
      [] entity_type = "ADDRESS" -> _classify_address(value)
      [] entity_type = "EMAIL_ADDRESS" -> _classify_email(value, context)
      [] entity_type = "SOCIAL_MEDIA_HANDLE" -> _classify_social_media(value, context)
      [] OTHER -> Classified("NonControlled", 50)

IdleClassify == [pc |-> "idle", entity_type |-> "", value |-> "", context |-> "",
                 classification |-> ""]

\* classify_label(entity_type, raw_value, full_text, start, end): the
\* context is cut out of full_text and the classification returned
classify_label(entity_type, raw_value, context) ==
    /\ cl.pc = "idle"
    /\ cl' = [pc |-> "returned", entity_type |-> entity_type,
              value |-> raw_value, context |-> context,
              classification |-> classify_entity(entity_type, raw_value, context).label]

\* ------------------------------------------------------------------------
\* ResumeManager.get_scan_status
\* ------------------------------------------------------------------------
NoStatus == [pc |-> "idle", is_locked |-> FALSE]

\* "is_locked": self.lock_file.exists()
is_locked == lock_file # NoInode

\* get_scan_status: the status dictionary; its list_pending_checkpoints call
\* unlinks the checkpoints it does not keep
get_scan_status ==
    /\ gs' = [pc |-> "returned", is_locked |-> is_locked]
    /\ resume_dir' = [n \in FileNames |->
                        IF n[2] = "json" /\ resume_dir[n] # Absent
                           /\ ~list_pending_keeps(resume_dir[n])
                        THEN Absent ELSE resume_dir[n]]
    /\ corruptSeen' = (corruptSeen \/ \E n \in FileNames :
                          n[2] = "json" /\ resume_dir[n] # Absent /\ ~Parses(resume_dir[n]))
    /\ UNCHANGED <<files, now, ck, edits>>

Init ==
    /\ LockInit /\ CkptInit /\ DedupeInit /\ ResumeInit
    /\ lp = [pc |-> "idle", resume_dir |-> {}, pending |-> <<>>, before |-> <<>>]
    /\ mm = [pc |-> "idle", file_size_mb |-> 0, available |-> 0, chunk_size |-> 0]
    /\ DetectInit /\ StrategyInit
    /\ sd = IdleDir
    /\ pg = IdleProgress
    /\ fo = IdleFilter
    /\ pt = NewTracker
    /\ cl = IdleClassify
    /\ gs = NoStatus

LockNext ==
    \/ \E p \in Procs : acquire_lock_open(p) /\ UNCHANGED nonLockVars
    \/ \E p \in Procs : acquire_lock_flock(p) /\ UNCHANGED nonLockVars
    \/ \E p \in Procs : acquire_lock_write(p) /\ UNCHANGED nonLockVars
    \/ \E p \in Procs : release_lock_unlock(p) /\ UNCHANGED nonLockVars
    \/ \E p \in Procs : release_lock_close(p) /\ UNCHANGED nonLockVars
    \/ \E p \in Procs : release_lock_unlink(p) /\ UNCHANGED nonLockVars
    \/ \E p \in Procs : process_exit(p)

SpecLock == Init /\ [][LockNext]_vars

\* processes take and release the lock while the status is asked for
StatusNext ==
    \/ LockNext
    \/ get_scan_status /\ UNCHANGED nonStatusVars

SpecStatus == Init /\ [][StatusNext]_vars

\* one scan saves checkpoints while another process reads them
Savers == {1}
Loaders == {2}

CkptNext ==
    \/ \E p \in Savers, f \in Paths, prog \in Progress :
          save_checkpoint_open(p, f, prog) /\ UNCHANGED nonCkptVars
    \/ \E p \in Savers : save_checkpoint_write(p) /\ UNCHANGED nonCkptVars
    \/ \E p \in Savers : save_checkpoint_replace(p) /\ UNCHANGED nonCkptVars
    \/ \E p \in Loaders, f \in Paths : load_checkpoint_read(p, f) /\ UNCHANGED nonCkptVars
    \/ \E p \in Loaders : load_checkpoint_validate(p) /\ UNCHANGED nonCkptVars
    \/ \E p \in Loaders, fp \in Fingerprints :
          list_pending_visit(p, fp) /\ UNCHANGED nonCkptVars
    \/ \E f \in Paths : modify_file(f) /\ UNCHANGED nonCkptVars
    \/ Tick /\ UNCHANGED nonCkptVars
    \/ \E p \in Savers \cup Loaders : process_exit(p)

SpecCkpt == Init /\ [][CkptNext]_vars

DedupeNext ==
    \/ \E p \in Scanners : FileScanner_init(p) /\ UNCHANGED nonDedupeVars
    \/ \E p \in Scanners, f \in Paths :
          _scan_one_is_duplicate(p, f) /\ UNCHANGED nonDedupeVars
    \/ \E p \in Scanners : _scan_one_scan(p) /\ UNCHANGED nonDedupeVars
    \/ \E p \in Scanners : _scan_one_write_row(p) /\ UNCHANGED nonDedupeVars
    \/ \E p \in Scanners : add_processed_open_index(p) /\ UNCHANGED nonDedupeVars
    \/ \E p \in Scanners : add_processed_dump_index(p) /\ UNCHANGED nonDedupeVars
    \/ \E p \in Scanners : add_processed_open_seen(p) /\ UNCHANGED nonDedupeVars
    \/ \E p \in Scanners : add_processed_dump_seen(p) /\ UNCHANGED nonDedupeVars
    \/ \E f \in Paths : modify_file(f) /\ UNCHANGED nonCkptVars
    \/ \E p \in Scanners : process_exit(p)

SpecDedupe == Init /\ [][DedupeNext]_vars

ResumeNext ==
    \/ \E p \in Resumers, f \in Paths : scan_with_resume_open(p, f) /\ UNCHANGED pureVars
    \/ \E p \in Resumers : scan_with_resume_flock(p) /\ UNCHANGED pureVars
    \/ \E p \in Resumers : scan_with_resume_write(p) /\ UNCHANGED pureVars
    \/ \E p \in Resumers : scan_with_resume_refused(p) /\ UNCHANGED pureVars
    \/ \E p \in Resumers : scan_with_resume_load_read(p) /\ UNCHANGED pureVars
    \/ \E p \in Resumers : scan_with_resume_load_validate(p) /\ UNCHANGED pureVars
    \/ \E p \in Resumers : scan_file_analyze(p) /\ UNCHANGED pureVars
    \/ \E p \in Resumers : scan_file_submit(p) /\ UNCHANGED pureVars
    \/ \E p \in Resumers : worker_done(p) /\ UNCHANGED pureVars
    \/ \E p \in Resumers : _collect_futures(p) /\ UNCHANGED pureVars
    \/ \E p \in Resumers : KeyboardInterrupt(p) /\ UNCHANGED pureVars
    \/ \E p \in Resumers : scan_with_resume_clear(p) /\ UNCHANGED pureVars
    \/ \E p \in Resumers : scan_with_resume_unlock(p) /\ UNCHANGED pureVars
    \/ \E p \in Resumers : scan_with_resume_close(p) /\ UNCHANGED pureVars
    \/ \E p \in Resumers : scan_with_resume_unlink(p) /\ UNCHANGED pureVars
    \/ \E p \in Savers, f \in Paths, prog \in Progress :
          NoScanRuns /\ save_checkpoint_open(p, f, prog) /\ UNCHANGED nonCkptVars
    \/ \E p \in Savers : save_checkpoint_write(p) /\ UNCHANGED nonCkptVars
    \/ \E p \in Savers : save_checkpoint_replace(p) /\ UNCHANGED nonCkptVars
    \/ \E f \in Paths : modify_file(f) /\ UNCHANGED nonCkptVars
    \/ \E p \in Lockers : NoSaveRuns /\ acquire_lock_open(p) /\ UNCHANGED nonLockVars
    \/ \E p \in Lockers : acquire_lock_flock(p) /\ UNCHANGED nonLockVars
    \/ \E p \in Lockers : acquire_lock_write(p) /\ UNCHANGED nonLockVars
    \/ \E p \in Lockers : release_lock_unlock(p) /\ UNCHANGED nonLockVars
    \/ \E p \in Lockers : release_lock_close(p) /\ UNCHANGED nonLockVars
    \/ \E p \in Lockers : release_lock_unlink(p) /\ UNCHANGED nonLockVars
    \/ \E p \in Resumers \cup Lockers : NoSaveRuns /\ process_exit(p)

SpecResume == Init /\ [][ResumeNext]_vars

\* scan_with_resume on an output directory for which nothing calls
\* save_checkpoint (no caller of it exists in the repository): no checkpoint
\* file exists, so load_checkpoint returns before it validates anything.
\* Another process takes and releases the scan lock of the directory, and
\* the scanned file may be removed.
ScanNext ==
    \/ \E p \in Resumers, f \in Paths : scan_with_resume_open(p, f) /\ UNCHANGED pureVars
    \/ \E p \in Resumers : scan_with_resume_flock(p) /\ UNCHANGED pureVars
    \/ \E p \in Resumers : scan_with_resume_write(p) /\ UNCHANGED pureVars
    \/ \E p \in Resumers : scan_with_resume_refused(p) /\ UNCHANGED pureVars
    \/ \E p \in Resumers : scan_with_resume_load_read(p) /\ UNCHANGED pureVars
    \/ \E p \in Resumers : scan_file_analyze(p) /\ UNCHANGED pureVars
    \/ \E p \in Resumers : scan_file_submit(p) /\ UNCHANGED pureVars
    \/ \E p \in Resumers : worker_done(p) /\ UNCHANGED pureVars
    \/ \E p \in Resumers : _collect_futures(p) /\ UNCHANGED pureVars
    \/ \E p \in Resumers : KeyboardInterrupt(p) /\ UNCHANGED pureVars
    \/ \E p \in Resumers : scan_with_resume_clear(p) /\ UNCHANGED pureVars
    \/ \E p \in Resumers : scan_with_resume_unlock(p) /\ UNCHANGED pureVars
    \/ \E p \in Resumers : scan_with_resume_close(p) /\ UNCHANGED pureVars
    \/ \E p \in Resumers : scan_with_resume_unlink(p) /\ UNCHANGED pureVars
    \/ \E f \in Paths : remove_file(f) /\ UNCHANGED nonCkptVars
    \/ \E p \in Lockers : NoSaveRuns /\ acquire_lock_open(p) /\ UNCHANGED nonLockVars
    \/ \E p \in Lockers : acquire_lock_flock(p) /\ UNCHANGED nonLockVars
    \/ \E p \in Lockers : acquire_lock_write(p) /\ UNCHANGED nonLockVars
    \/ \E p \in Lockers : release_lock_unlock(p) /\ UNCHANGED nonLockVars
    \/ \E p \in Lockers : release_lock_close(p) /\ UNCHANGED nonLockVars
    \/ \E p \in Lockers : release_lock_unlink(p) /\ UNCHANGED nonLockVars
    \/ \E p \in Resumers \cup Lockers : NoSaveRuns /\ process_exit(p)

SpecScan == Init /\ [][ScanNext]_vars

\* the same call while nothing else takes the scan lock of the directory,
\* on a file that its owner may rewrite between and during scans
PoolNext ==
    \/ \E p \in Resumers, f \in Paths : scan_with_resume_open(p, f) /\ UNCHANGED pureVars
    \/ \E p \in Resumers : scan_with_resume_flock(p) /\ UNCHANGED pureVars
    \/ \E p \in Resumers : scan_with_resume_write(p) /\ UNCHANGED pureVars
    \/ \E p \in Resumers : scan_with_resume_load_read(p) /\ UNCHANGED pureVars
    \/ \E p \in Resumers : scan_file_analyze(p) /\ UNCHANGED pureVars
    \/ \E p \in Resumers : scan_file_submit(p) /\ UNCHANGED pureVars
    \/ \E p \in Resumers : worker_done(p) /\ UNCHANGED pureVars
    \/ \E p \in Resumers : _collect_futures(p) /\ UNCHANGED pureVars
    \/ \E p \in Resumers : KeyboardInterrupt(p) /\ UNCHANGED pureVars
    \/ \E p \in Resumers : scan_with_resume_clear(p) /\ UNCHANGED pureVars
    \/ \E p \in Resumers : scan_with_resume_unlock(p) /\ UNCHANGED pureVars
    \/ \E p \in Resumers : scan_with_resume_close(p) /\ UNCHANGED pureVars
    \/ \E p \in Resumers : scan_with_resume_unlink(p) /\ UNCHANGED pureVars
    \/ \E f \in Paths : modify_file(f) /\ UNCHANGED nonCkptVars
    \/ \E p \in Resumers : NoSaveRuns /\ process_exit(p)

SpecPool == Init /\ [][PoolNext]_vars

DetectNext ==
    \/ \E text \in Texts, params \in ChunkParams, analyzer \in BOOLEAN :
          hits_from_text_call(text, params, analyzer) /\ UNCHANGED nonDetectVars
    \/ _chunk_loop /\ UNCHANGED nonDetectVars
    \/ _process_with_presidio_chunk /\ UNCHANGED nonDetectVars
    \/ _process_with_fallback /\ UNCHANGED nonDetectVars

SpecDetect == Init /\ [][DetectNext]_vars

StrategyNext ==
    \E file_size_mb \in Sizes, available_memory_mb \in Memories,
       file_ext \in Extensions, is_structured \in BOOLEAN, is_binary \in BOOLEAN :
        /\ _analyze_file(file_size_mb, available_memory_mb, file_ext,
                         is_structured, is_binary)
        /\ UNCHANGED nonStrategyVars

SpecStrategy == Init /\ [][StrategyNext]_vars

DirNext ==
    \/ scan_directory /\ UNCHANGED nonDirVars
    \/ \E entry \in Entries : scan_directory_loop(entry) /\ UNCHANGED nonDirVars
    \/ scan_directory_return /\ UNCHANGED nonDirVars

SpecDir == Init /\ [][DirNext]_vars

PendingNext ==
    \/ list_pending_checkpoints /\ UNCHANGED nonPendingVars
    \/ \E c \in CheckpointFiles :
          list_pending_checkpoints_loop(c) /\ UNCHANGED nonPendingVars
    \/ list_pending_checkpoints_return /\ UNCHANGED nonPendingVars

SpecPending == Init /\ [][PendingNext]_vars

FilterNext ==
    \E n \in 0..MaxResults : \E results \in [1..n -> RawMatches] :
        _filter_overlapping_results_call(results) /\ UNCHANGED nonFilterVars

SpecFilter == Init /\ [][FilterNext]_vars

TrackerNext ==
    \/ \E t \in Updaters, args \in UpdateArgs :
          update_acquire(t, args) /\ UNCHANGED nonTrackerVars
    \/ \E t \in Updaters : update_load(t) /\ UNCHANGED nonTrackerVars
    \/ \E t \in Updaters : update_store(t) /\ UNCHANGED nonTrackerVars
    \/ get_stats_acquire(Reader) /\ UNCHANGED nonTrackerVars
    \/ get_stats_read(Reader) /\ UNCHANGED nonTrackerVars

SpecTracker == Init /\ [][TrackerNext]_vars

ClassifyNext ==
    \E input \in ClassifyInputs, context \in Contexts :
        classify_label(input[1], input[2], context) /\ UNCHANGED nonClassifyVars

SpecClassify == Init /\ [][ClassifyNext]_vars

MemoryNext ==
    \E file_size_mb \in Sizes, available \in AvailableMemory :
        MemoryManager_call(file_size_mb, available) /\ UNCHANGED nonMemoryVars

SpecMemory == Init /\ [][MemoryNext]_vars

ProgressNext ==
    \/ \E csv \in BOOLEAN, estimated_rows \in {1, 2 * chunk_rows} :
          scan_large_file(csv, estimated_rows) /\ UNCHANGED nonProgressVars
    \/ \E new_block \in BOOLEAN, done \in 0..(max_workers * 2), controlled \in 0..(max_workers * 2) :
          _scan_parallel_chunk(new_block, done, controlled) /\ UNCHANGED nonProgressVars
    \/ \E done \in 0..(max_workers * 2), controlled \in 0..(max_workers * 2) :
          _scan_parallel_collect_remaining(done, controlled) /\ UNCHANGED nonProgressVars
    \/ ProgressMonitor_stop /\ UNCHANGED nonProgressVars
    \/ _monitor_loop /\ UNCHANGED nonProgressVars
    \/ scan_large_file_return /\ UNCHANGED nonProgressVars

SpecProgress == Init /\ [][ProgressNext]_vars

\* the monitor thread is scheduled: a thread that can run does run
SpecProgressLive == SpecProgress /\ WF_vars(_monitor_loop /\ UNCHANGED nonProgressVars)

\* C1: at most one process at a time holds the scan lock of the output
\* directory (acquire_lock returned true and release_lock not yet called).
C1_AtMostOneHolder == Cardinality(Holders) <= 1

\* C2: when the lock is free and processes call acquire_lock concurrently (no
\* release and no process exit in between), exactly one call returns true,
\* every other call returns false, and the flock step never waits.
C2_ExactlyOneSucceeds ==
    /\ (/\ ~disturbed
        /\ Cardinality(racers) >= 2
        /\ racers \cap InAcquire = {})
       => Cardinality({p \in racers : ret[p] = "true"}) = 1
          /\ \A p \in racers : ret[p] \in {"true", "false"}
    /\ \A p \in Procs : pc[p] = "opened" => ENABLED acquire_lock_flock(p)

C2_Witness ==
    /\ ~disturbed
    /\ racers \cap InAcquire = {}
    /\ \E p, q \in racers : ret[p] = "true" /\ ret[q] = "false"

\* C3: an acquire_lock call that fails because the lock is held performs no
\* writes: after the failed call the sentinel file still holds the metadata
\* the holder wrote.
C3_FailedAcquireWritesNothing ==
    [][\A q \in Procs, h \in Procs :
          (/\ pc[q] = "opened"
           /\ pc[h] = "held"
           /\ flockHolder[lock_fd[q]] = h
           /\ ret'[q] = "false")
          => inodeContent'[lock_fd[h]] = LockInfo(h)]_vars

\* the checkpoint files (not the temporary files) of the resume directory
JsonFiles(dir) == [fp \in Fingerprints |-> dir[checkpoint_file(fp)]]

\* a step of save_checkpoint before its rename, or the writer dying in it
SaveStepBeforeReplace(p) ==
    \/ \E f \in Paths, prog \in Progress : save_checkpoint_open(p, f, prog)
    \/ save_checkpoint_write(p)
    \/ ck[p].pc \in {"save_opened", "save_written"} /\ process_exit(p)

\* C7: save_checkpoint is atomic to readers: load_checkpoint and
\* list_pending_checkpoints never meet a partial checkpoint, every checkpoint
\* file always holds a complete document, and no step of save_checkpoint
\* before the rename (nor a crash at any point of it) changes a checkpoint file.
C7_SaveAtomic ==
    [][/\ ~corruptSeen'
       /\ \A fp \in Fingerprints :
             resume_dir'[checkpoint_file(fp)] # Absent
                => Parses(resume_dir'[checkpoint_file(fp)])
       /\ \/ JsonFiles(resume_dir') = JsonFiles(resume_dir)
          \/ \A p \in Procs : ~SaveStepBeforeReplace(p)]_vars

\* a reader holds the previous checkpoint while the writer is half way through
\* the temporary file of the next one
C7_Witness ==
    \E w \in Procs, r \in Procs :
        /\ ck[w].pc = "save_opened"
        /\ resume_dir[with_suffix_tmp(checkpoint_file(ck[w].fp))][2] = 1
        /\ ck[r].pc = "load_read"
        /\ ck[r].fp = ck[w].fp
        /\ ck[r].doc # ck[w].doc

\* C8: load_checkpoint(path) returns a checkpoint only if the stored path
\* equals path, the stored fingerprint equals the file's current fingerprint
\* and the checkpoint is at most StaleHours old; otherwise it returns none.
C8_LoadOnlyValid ==
    [][\A p \in Procs :
          (ck[p].pc = "load_read" /\ ck'[p].result # NoCheckpoint)
          => LET doc == ck'[p].result[1]
                 f == ck[p].path
             IN /\ doc.file_path = f
                /\ doc.fingerprint = get_file_fingerprint(f)
                /\ now - doc.save_time <= StaleHours]_vars

\* a checkpoint exactly StaleHours old was returned
C8_Witness ==
    \E p \in Procs :
        /\ ck[p].pc = "idle"
        /\ ck[p].result # NoCheckpoint
        /\ now - ck[p].result[1].save_time = StaleHours

\* the step in which a load_checkpoint(f) call of p returns
LoadReturns(p, f) ==
    \/ load_checkpoint_read(p, f) /\ ck'[p].pc = "idle"
    \/ load_checkpoint_validate(p) /\ ck[p].path = f

\* a checkpoint file saved for f that no longer matches f or is too old
Outdated(c, f) ==
    /\ Parses(c)
    /\ c[1].file_path = f
    /\ \/ files[f] # Gone /\ c[1].fingerprint # get_file_fingerprint(f)
       \/ now - c[1].save_time > StaleHours

\* C9: when a checkpoint was saved for a file and the file's size or mtime
\* changed since, or the checkpoint is older than the staleness threshold,
\* load_checkpoint of that file deletes that checkpoint file and returns none.
C9_LoadDeletesOutdated ==
    [][\A p \in Procs, f \in Paths :
          LoadReturns(p, f) =>
             \A fp \in Fingerprints :
                Outdated(resume_dir[checkpoint_file(fp)], f)
                   => /\ resume_dir'[checkpoint_file(fp)] = Absent
                      /\ ck'[p].result = NoCheckpoint]_vars

\* C4: for a file that is not modified between scans, once a first
\* _scan_one of it has completed, every later _scan_one of that file against
\* the same output directory returns the skipped result and leaves
\* summary.csv, the processed set and the signature store as they were.
C4_SecondScanSkips ==
    [][\A p \in Scanners, f \in Paths :
          (_scan_one_is_duplicate(p, f) /\ <<f, files[f]>> \in completed)
             => /\ fs'[p].pc = "ready"
                /\ fs'[p].ret = "false"
                /\ UNCHANGED <<summary_csv, summary_index_file, seen_file>>]_vars

\* the summary counts of one uninterrupted run over the file: every chunk
\* of the file is scanned and its hits are counted
UninterruptedTotal(f) == SumHits(extract_text_stream(f))

\* C5: if a scan of a file is interrupted after N of its M chunks and the
\* scan is restarted through scan_with_resume with the file unchanged, the
\* final summary counts of the resumed run equal the summary counts of one
\* uninterrupted run over the same file.
C5_ResumedCountsEqual ==
    \A p \in Resumers :
        (/\ swr[p].pc = "clear"
         /\ swr[p].resumes # Gone
         /\ swr[p].failed = {}
         /\ files[swr[p].file_path] = swr[p].resumes)
            => swr[p].result = BuildResult(UninterruptedTotal(swr[p].file_path))

\* the progress payload of a checkpoint that holds the counters n
CountersPayload(n) == ToString(n)

\* C6: on a termination signal during a scan no further chunk is submitted,
\* the in-flight results already computed are folded in, a checkpoint
\* holding the current counters is persisted, and only then the scan lock
\* is released: when the release of the lock begins, the checkpoint of the
\* file holds the counters with the computed results folded in.
C6_InterruptOrder ==
    [][\A p \in Resumers :
          (scan_with_resume_unlock(p) /\ swr[p].result = Interrupted)
             => LET cf == checkpoint_file(get_file_fingerprint(swr[p].file_path))
                IN  /\ Parses(resume_dir[cf])
                    /\ resume_dir[cf][1].progress =
                           CountersPayload(swr[p].counters + swr[p].computed)]_vars

\* C10: scan_with_resume clears a file's checkpoint only when the scan of
\* that file completed normally; when the scan is interrupted or fails
\* (a scanner that reports a failure included) the checkpoint stays.
C10_ClearOnlyOnCompletion ==
    [][\A p \in Resumers :
          (scan_with_resume_clear(p) /\ resume_dir' # resume_dir)
             => swr[p].result.kind = "summary"]_vars

C12_RefusedWritesNothing ==
    [][\A p \in Resumers :
          scan_with_resume_refused(p) => resume_dir' = resume_dir]_vars

\* the cap on in-flight chunks the strategies are to keep
ClaimedCap(strategy) ==
    IF strategy \in {"csv_streaming", "memory_mapped"} THEN max_workers * 2
    ELSE max_workers * 3

\* C13: during a scan the number of chunks submitted to the worker pool and
\* not yet collected never exceeds workers*2 in the CSV-streaming and
\* memory-mapped strategies and workers*3 in the parallel-chunks strategy;
\* once the cap is reached no further chunk is submitted before results
\* are drained.
C13_InFlightCap ==
    [][\A p \in Resumers :
          /\ scan'[p].pc # "idle"
                => Cardinality(scan'[p].futures) <= ClaimedCap(scan'[p].strategy)
          /\ (scan[p].pc # "idle"
               /\ Cardinality(scan[p].futures) >= ClaimedCap(scan[p].strategy))
                => scan'[p].futures \subseteq scan[p].futures]_vars

\* the parallel-chunks strategy has its cap of chunks in flight and more
\* chunks of the file to submit
C13_Witness ==
    \E p \in Resumers :
        /\ scan[p].strategy = "parallel_chunks"
        /\ scan[p].pc = "collect"
        /\ Cardinality(scan[p].futures) = max_workers * 3
        /\ scan[p].next \in scan[p].chunks

\* the hits of chunk c that are in a list of entities
HitsOfChunk(entities, c) ==
    {i \in DOMAIN entities : entities[i].value[1] = c}

\* C14: if detection fails on one chunk of a file, that chunk contributes no
\* hits, the scan of the file continues with the remaining chunks, and the
\* hits of every other chunk are present in the file's final result.
C14_FailedChunkOnly ==
    \A p \in Resumers :
        (swr[p].pc = "clear" /\ swr[p].failed # {})
           => /\ swr[p].result.kind = "summary"
              /\ \A c \in swr[p].chunks :
                    Cardinality(HitsOfChunk(swr[p].entities, c)) =
                        IF c \in swr[p].failed THEN 0
                        ELSE Len(_process_text_chunk(c))

\* the position in the file of the first character of chunk c
ChunkOffset(c) == (c - 1) * optimal_chunk_size

\* C16: every hit of a file's final result carries file-relative start and
\* end offsets: its offsets inside the chunk that produced it plus the
\* offset of that chunk in the file.
C16_FileRelativeOffsets ==
    \A p \in Resumers :
        swr[p].pc = "clear"
           => \A i \in DOMAIN swr[p].entities :
                 LET h == swr[p].entities[i]
                     c == h.value[1]
                     inChunk == hits_from_text(c)[h.value[2]]
                 IN /\ h.start = ChunkOffset(c) + inChunk.start
                    /\ h.end = ChunkOffset(c) + inChunk.end

\* the end of a chunk lies inside the value of the text
StraddlesCut(d) ==
    \E k \in 0..d.text.len :
        LET cut == k * (d.chunk_size - d.overlap) + d.chunk_size
        IN  /\ cut < d.text.len
            /\ d.text.at < cut
            /\ cut < d.text.at + Len(d.text.value)

\* C15: for a text longer than the chunk size and an overlap at least as
\* long as the entity value, an entity whose characters straddle a chunk
\* boundary is returned exactly once in the reassembled hits of the text:
\* the call returns, some hit carries the value, and no two hits of one
\* entity type carry it.
C15_BoundaryEntityOnce ==
    (/\ det.pc \in {"returned", "raised"}
     /\ det.text.len > det.chunk_size
     /\ det.overlap >= Len(det.text.value)
     /\ StraddlesCut(det))
       => /\ det.pc = "returned"
          /\ \E i \in DOMAIN det.all_hits : det.all_hits[i].value = det.text.value
          /\ \A i, j \in DOMAIN det.all_hits :
                (/\ i # j
                 /\ det.all_hits[i].entity_type = det.all_hits[j].entity_type
                 /\ det.all_hits[i].value = det.text.value)
                   => det.all_hits[j].value # det.text.value

\* C17: no two hits returned by hits_from_text for one chunk have
\* intersecting spans, across all entity types and patterns, on the analyzer
\* path and on the fallback regex path.
C17_NoOverlappingHits ==
    det.pc = "returned"
       => \A i, j \in DOMAIN det.all_hits :
             i # j => ~(/\ det.all_hits[i].start < det.all_hits[j].end
                        /\ det.all_hits[i].end > det.all_hits[j].start)

\* C18: a value that matches a credit-card pattern but fails the Luhn
\* mod-10 check is never returned as an EntityHit by hits_from_text.
C18_NoLuhnFailingCard ==
    det.pc = "returned"
       => \A i \in DOMAIN det.all_hits :
             det.all_hits[i].entity_type = "CREDIT_CARD"
                => _luhn_check(det.all_hits[i].value)

\* C19: a bank-routing value that fails the 9-digit ABA weighted checksum
\* is rejected by validation and is never returned as an accepted hit.
C19_NoChecksumFailingRouting ==
    det.pc = "returned"
       => \A i \in DOMAIN det.all_hits :
             det.all_hits[i].entity_type = "BANK_ROUTING"
                => validate_aba_routing(det.all_hits[i].value)

\* the decision table: rows of <<condition, strategy>>, the first row whose
\* condition holds wins
DecisionTable(info) ==
    << <<info.is_binary /\ info.size_mb > 100, "chunked_streaming">>,
       <<info.is_binary, "standard">>,
       <<info.type = ".csv" /\ info.size_mb > 50, "csv_streaming">>,
       <<info.size_mb > 500 /\ ~info.is_structured
            /\ 2 * info.size_mb < info.available_memory_mb, "memory_mapped">>,
       <<info.size_mb > 500 /\ ~info.is_structured, "parallel_chunks">>,
       <<info.size_mb > 100, "parallel_chunks">>,
       <<info.size_mb > 20, "chunked_streaming">>,
       <<TRUE, "standard">> >>

FirstMatch(table) ==
    table[CHOOSE i \in DOMAIN table :
             table[i][1] /\ \A j \in 1..(i - 1) : ~table[j][1]][2]

\* C20: for every combination of file size, available memory, extension,
\* binary flag and structured flag, _choose_strategy returns the strategy of
\* the ordered first-match decision table; a 600MB unstructured text file
\* selects memory_mapped with 2000MB available and parallel_chunks with
\* 800MB available.
C20_StrategyTable ==
    file_info.strategy # "none"
       => /\ file_info.strategy = FirstMatch(DecisionTable(file_info))
          /\ (/\ file_info.size_mb = 600
               /\ file_info.type = ".txt"
               /\ ~file_info.is_binary
               /\ ~file_info.is_structured)
                 => /\ file_info.available_memory_mb = 2000
                          => file_info.strategy = "memory_mapped"
                    /\ file_info.available_memory_mb = 800
                          => file_info.strategy = "parallel_chunks"

\* the 600MB unstructured text file with 2000MB available
C20_Witness ==
    /\ file_info.size_mb = 600
    /\ file_info.type = ".txt"
    /\ ~file_info.is_binary
    /\ ~file_info.is_structured
    /\ file_info.available_memory_mb = 2000
    /\ file_info.strategy = "memory_mapped"

\* C21: every write of the processed-set store and of the path-to-signature
\* store is an atomic replace: at every point of add_processed at which the
\* process can end, each store file holds a complete map (its previous
\* content or its new content), never an opened and unwritten file.
C21_StoreWritesAtomic ==
    /\ summary_index_file.state \in {"absent", "json"}
    /\ seen_file.state \in {"absent", "json"}

\* the canonical keys of the files whose _scan_one returned True
CompletedKeys == {<<c[1], c[2][1], c[2][2]>> : c \in completed}

\* C22: writes of the dedup index of one output directory are serialized:
\* whenever .summary_index.json holds a map, the map holds the key of every
\* file recorded by a _scan_one that returned True, whichever scanner
\* recorded it.
C22_NoLostKey ==
    summary_index_file.state = "json" => CompletedKeys \subseteq summary_index_file.data

\* C23: when the stat of a file fails, the canonical key falls back to a
\* path-only key: an add_processed of a file that cannot be stat'ed still
\* records the file (its key enters the processed set and the store is
\* written), so that is_duplicate can recognise it.
C23_StatFailureStillRecorded ==
    [][\A p \in Scanners :
          (add_processed_open_index(p) /\ files[fs[p].file_path] = Gone)
             => /\ fs'[p].pc = "index_open"
                /\ fs'[p].summary_index # fs[p].summary_index]_vars

\* C24: in scan_directory a file whose scan raises an error is reported and
\* skipped and every remaining eligible file is still scanned: the call
\* never ends in an exception, and when it returns _scan_one has run for
\* every eligible entry, every failed one was reported and the count is
\* the number of files processed.
C24_BadFileSkipped ==
    /\ sd.pc # "raised"
    /\ sd.pc = "returned" =>
          LET eligible == {i \in DOMAIN sd.entries : sd.entries[i] # "ineligible"}
          IN  /\ sd.scanned = eligible
              /\ sd.stderr = {i \in eligible : sd.entries[i] \in ScanErrors}
              /\ sd.processed_count =
                    Cardinality({i \in eligible : sd.entries[i] = "ok"})

C24_Witness ==
    /\ sd.pc = "returned"
    /\ \E i, j \in DOMAIN sd.entries :
          /\ i < j
          /\ sd.entries[i] = "DetectorError"
          /\ sd.entries[j] = "ok"
          /\ j \in sd.scanned

\* C25: within one scan the progress counters processed_items,
\* entities_found, controlled, noncontrolled, bytes_processed and
\* files_processed never decrease, and total_items changes only when it was
\* not set before.
C25_CountersMonotonic ==
    [][/\ pg'.tracker.processed_items >= pg.tracker.processed_items
       /\ pg'.tracker.entities_found >= pg.tracker.entities_found
       /\ pg'.tracker.controlled_entities >= pg.tracker.controlled_entities
       /\ pg'.tracker.noncontrolled_entities >= pg.tracker.noncontrolled_entities
       /\ pg'.tracker.bytes_processed >= pg.tracker.bytes_processed
       /\ pg'.tracker.files_processed >= pg.tracker.files_processed
       /\ pg'.tracker.total_items # pg.tracker.total_items
             => pg.tracker.total_items = None]_vars

Clamp(x, lo, hi) == IF x < lo THEN lo ELSE IF x > hi THEN hi ELSE x

\* C27: get_optimal_chunk_size computes clamp(available_memory_mb * 0.1, 1,
\* 50) megabytes, converts them to characters at 2 bytes per character and
\* clamps that to [1000, 50000]: the returned chunk size is that value and
\* lies in [1000, 50000].
C27_ChunkSizeClamped ==
    mm.pc = "returned" =>
        /\ mm.chunk_size =
              Clamp(Clamp(mm.available \div 10, 1048576, 52428800) \div 2, 1000, 50000)
        /\ mm.chunk_size >= 1000
        /\ mm.chunk_size <= 50000

C27_Witness ==
    /\ mm.pc = "returned"
    /\ mm.available > 10485760
    /\ mm.available < 524288000
    /\ mm.chunk_size = 50000

\* the checkpoint files of a directory whose target exists and which are
\* valid: path and fingerprint match and the checkpoint is at most 24 hours
\* old (the call is made at hour 0)
Actionable(dir) ==
    {n \in DOMAIN dir : dir[n].kind = "matching" /\ 0 - dir[n].save_time <= 24}

\* C28: list_pending_checkpoints returns exactly the checkpoints whose target
\* file exists and which are valid, newest save time first, and after it
\* returns every checkpoint file remaining in the resume directory is one
\* it returned.
C28_ListPending ==
    lp.pc = "returned" =>
        LET returned == {lp.pending[k].checkpoint_file : k \in DOMAIN lp.pending}
        IN  /\ Cardinality(returned) = Len(lp.pending)
            /\ returned = Actionable(lp.before)
            /\ lp.resume_dir = returned
            /\ \A k \in DOMAIN lp.pending :
                  lp.pending[k].save_time = lp.before[lp.pending[k].checkpoint_file].save_time
            /\ \A j, k \in DOMAIN lp.pending :
                  j < k => lp.pending[j].save_time >= lp.pending[k].save_time

C28_Witness ==
    /\ lp.pc = "returned"
    /\ Len(lp.pending) >= 2
    /\ lp.pending[1].save_time > lp.pending[2].save_time
    /\ lp.pending[1].checkpoint_file > lp.pending[2].checkpoint_file
    /\ lp.resume_dir # DOMAIN lp.before

\* the condition of the claim, on the maps of the DedupeManager object d:
\* the canonical key of the file is in the processed set, or the current
\* signature of the path is the one recorded for it
DuplicateAsClaimed(d, f) ==
    \/ <<f, files[f][1], files[f][2]>> \in d.summary_index
    \/ d.seen[f] = <<files[f][1], files[f][2]>>

\* C29: is_duplicate(path) returns true if and only if the canonical key of
\* the file is in the processed set or the current size:mtime signature of
\* the path equals the signature last recorded for that path: _scan_one of
\* a file that can be stat'ed returns at its duplicate test exactly then.
C29_IsDuplicateIff ==
    [][\A p \in Scanners, f \in Paths :
          (_scan_one_is_duplicate(p, f) /\ files[f] # Gone)
             => (fs'[p].pc = "ready" <=> DuplicateAsClaimed(fs[p], f))]_vars

\* a scanner whose processed set holds the key of the file while no
\* signature is recorded for the path has skipped the file
C29_Witness ==
    \E p \in Scanners, f \in Paths :
        /\ files[f] # Gone
        /\ fs[p].pc = "ready"
        /\ fs[p].ret = "false"
        /\ <<f, files[f][1], files[f][2]>> \in fs[p].summary_index
        /\ fs[p].seen[f] = NoSig

\* the summary that folding every collected chunk of the file exactly once
\* gives, whatever the order of completion: chunks whose detection raised
\* gave no hits
FoldedOnce(chunks, failed) == BuildResult(SumHits(chunks \ failed))

\* C30: the final summary of a file (total, controlled and noncontrolled
\* counts) is the same for every order in which its chunks complete,
\* because the hits of each collected chunk are folded into the result
\* exactly once.
C30_SummaryOrderIndependent ==
    \A p \in Resumers :
        swr[p].pc = "clear"
           => swr[p].result = FoldedOnce(swr[p].chunks, swr[p].failed)

\* match i of the raw matches is taken before match j: higher confidence
\* first, encounter order at equal confidence
TakenBefore(results, i, j) ==
    \/ results[i].score > results[j].score
    \/ results[i].score = results[j].score /\ i < j

\* the spans of matches i and j intersect
Intersects(results, i, j) ==
    results[i].start < results[j].end /\ results[i].end > results[j].start

\* the greedy selection: a match is accepted iff its span intersects the
\* span of no match accepted before it
IsGreedySelection(results, accepted) ==
    \A i \in DOMAIN results :
        i \in accepted <=>
            ~\E j \in accepted :
                TakenBefore(results, j, i) /\ Intersects(results, i, j)

\* the sequence lists the accepted matches in the order they were taken
ListsInOrder(results, accepted, filtered) ==
    /\ Len(filtered) = Cardinality(accepted)
    /\ \A i \in accepted :
          filtered[1 + Cardinality({j \in accepted : TakenBefore(results, j, i)})]
              = results[i]

\* C31: _filter_overlapping_results returns exactly the greedy selection over
\* the raw matches taken in descending confidence, matches of equal
\* confidence keeping their encounter order: a match is accepted iff its
\* span intersects no earlier-accepted span, so of two overlapping matches
\* the higher-confidence one is kept and, at equal confidence, the first
\* encountered one.
C31_GreedyByConfidence ==
    fo.pc = "returned" =>
        /\ \E accepted \in SUBSET DOMAIN fo.results :
              /\ IsGreedySelection(fo.results, accepted)
              /\ ListsInOrder(fo.results, accepted, fo.filtered)
        /\ \A i, j \in DOMAIN fo.results :
              (TakenBefore(fo.results, i, j) /\ Intersects(fo.results, i, j)
                 /\ Len(fo.results) = 2)
                 => fo.filtered = <<fo.results[i]>>

\* the call returned for two intersecting matches where the second one met
\* has the higher confidence, and for nothing else it would be the first
C31_Witness ==
    /\ fo.pc = "returned"
    /\ Len(fo.results) = 2
    /\ Intersects(fo.results, 1, 2)
    /\ fo.results[2].score > fo.results[1].score
    /\ fo.filtered = <<fo.results[2]>>

\* the counters after the update calls of the set S of calls, from 0
RECURSIVE CountersAfter(_, _)
CountersAfter(calls, S) ==
    IF S = {} THEN ZeroCounters
    ELSE LET k == CHOOSE k \in S : TRUE
             rest == CountersAfter(calls, S \ {k})
         IN  [c \in DOMAIN ZeroCounters |-> rest[c] + calls[k][c]]

\* C32: ProgressTracker.update is atomic with respect to concurrent update
\* and get_stats calls: no increment is lost (after all updates finish each
\* counter equals its start value plus the sum of the arguments), and every
\* get_stats snapshot equals the counters after some whole number of
\* completed updates, never a partly applied one.
C32_UpdateAtomic ==
    /\ (\A t \in Updaters : pt.th[t].pc = "idle")
          => pt.counters = CountersAfter(pt.calls, DOMAIN pt.calls)
    /\ (pt.returned = 1 /\ pt.th[Reader].pc = "idle")
          => \E S \in SUBSET DOMAIN pt.calls :
                pt.th[Reader].stats = CountersAfter(pt.calls, S)

\* get_stats returned the counters as they are after each of the two
\* threads finished an update that found entities
C32_Witness ==
    /\ pt.returned = 1
    /\ pt.th[Reader].pc = "idle"
    /\ pt.th[Reader].stats = pt.counters
    /\ \A t \in Updaters : pt.th[t].updates >= 1
    /\ pt.counters.entities_found > 0

\* C33: _chunk terminates for every text and every size > overlap >= 0 and
\* returns finitely many chunks (each turn of a terminating loop moves on by
\* at least one character, so no more chunks than characters); for a
\* 3000-character text with size 1000 and overlap 100 it returns 4 chunks.
C33_ChunkTerminates ==
    (det.chunk_size > det.overlap /\ det.overlap >= 0)
        => /\ det.pc # "raised"
           /\ Len(det.chunks) <= det.text.len
           /\ \A k \in DOMAIN det.chunks :
                 k > 1 => det.chunks[k] # det.chunks[k - 1]

\* no structural rule of the classifier matches the value: a phone number
\* that is neither in a recognised format nor too short or too long, an
\* address none of the searches finds anything in, an email whose top-level
\* domain is in none of the lists, a handle that is neither a profile URL
\* nor an "@" handle
NoRuleMatches(entity_type, value) ==
    CASE entity_type = "PHONE_NUMBER" ->
            /\ ~phone_controlled_format(value) /\ ~phone_plus_code(value)
            /\ value.len \in {10, 11}
            /\ ~(value.len = 10 /\ value.d1 \in 2..9)
            /\ ~(value.len = 11 /\ value.d1 = 1)
      [] entity_type = "ADDRESS" ->
            /\ ~value.state_zip /\ value.foreign_postal = 0
            /\ ~value.non_english /\ ~value.country
            /\ ~value.controlled_format /\ ~value.zip_alone
      [] entity_type = "EMAIL_ADDRESS" ->
            value \notin official_tlds \cup generic_tlds /\ Len(value) # 2
      [] entity_type = "SOCIAL_MEDIA_HANDLE" -> value = "x"
      [] OTHER -> FALSE

C35_SlowWorkerWaitedFor ==
    [][\A p \in Resumers :
          (swr[p].pc = "scan" /\ swr'[p].pc = "clear")
             => /\ scan[p].done = scan[p].futures
                /\ swr'[p].result.kind = "summary"
                /\ \A c \in swr'[p].chunks \ swr'[p].failed :
                      Cardinality(HitsOfChunk(swr'[p].entities, c)) =
                          Len(_process_text_chunk(c))]_vars

\* C36: when a scan by a pooled strategy (CSV streaming, memory-mapped,
\* parallel chunks) ends, the tracker's processed_items equals the number of
\* non-empty chunks submitted: each chunk is counted exactly once, at
\* submission or at collection but not both.
C36_ProcessedItemsCountsChunks ==
    \A p \in Resumers :
        (swr[p].pc = "clear" /\ swr[p].result.kind = "summary")
           => swr[p].stats.processed_items = swr[p].submitted

\* C37: when scan_file returns a result, the tracker's entities_found,
\* controlled_entities and noncontrolled_entities in its stats equal the
\* summary's total_entities, controlled and noncontrolled, for every
\* strategy, including when the memory-mapped strategy fails midway and
\* falls back to chunked streaming.
C37_StatsEqualSummary ==
    \A p \in Resumers :
        (swr[p].pc = "clear" /\ swr[p].result.kind = "summary")
           => swr[p].stats.entities_found = swr[p].result.total

\* the file state (canonical key: path, size, mtime) a row of summary.csv
\* reports
RowKey(row) == <<row[1], row[3], row[4]>>

\* C38: across any sequence of directory scans, watcher polls and process
\* crashes against one output directory, summary.csv holds at most one row
\* per file state (canonical key): the same unmodified file is never
\* reported twice.
C38_OneRowPerFileState ==
    \A i, j \in DOMAIN summary_csv :
        RowKey(summary_csv[i]) = RowKey(summary_csv[j]) => i = j

\* C39: get_scan_status reports is_locked true exactly when some process
\* currently holds the scan lock of the output directory: true while a
\* holder exists, false after release_lock and false after the holder
\* process has died.  Checked on each call made while no acquire_lock or
\* release_lock call is in progress.
C39_IsLockedIffHeld ==
    [][(get_scan_status /\ \A p \in Procs : pc[p] \in {"idle", "held"})
          => (gs'.is_locked <=> Holders # {})]_vars

\* C40: get_optimal_chunk_size returns 50000 for every available-memory
\* value and every file size: the 1 MB floor of the first clamp already
\* converts to more characters than the 50000-character ceiling of the
\* second, so the chunk size does not vary with host memory.
C40_ChunkSizeConstant ==
    mm.pc = "returned" =>
        /\ mm.chunk_size = 50000
        /\ (1024 * 1024) \div 2 > 50000

\* the call returned for a host with less than 10 MB of available memory,
\* where the first clamp gives its floor, and a file of more than 1 GB
C40_Witness ==
    /\ mm.pc = "returned"
    /\ mm.available < 10485760
    /\ mm.file_size_mb > 1024
    /\ mm.chunk_size = 50000

============================================================================
